---- MODULE Spec2Model ----
(***************************************************************************)
(* Model of the workflow SDK (Executor, SimStudio.saveWorkflow) and of the *)
(* control bar's multi-run controller (handleMultipleRuns, checkUserUsage) *)
(* of the sim repository.                                                  *)
(*                                                                         *)
(* JavaScript values are records tagged with their type in field t, so    *)
(* that `undefined`, `null`, strings, numbers and objects can be compared. *)
(***************************************************************************)
EXTENDS Integers, Sequences, FiniteSets, TLC

(***************************************************************************)
(* Bounds of the model.                                                    *)
(***************************************************************************)
\* number of calls to crypto.randomUUID() the model follows
MaxUuid == 3
\* number of SDK calls the model follows one after the other
MaxCalls == 2

(***************************************************************************)
(* JavaScript values.                                                      *)
(***************************************************************************)
Undef == [t |-> "undefined"]
JNull == [t |-> "null"]
Str(s) == [t |-> "string", v |-> s]
Num(n) == [t |-> "number", v |-> n]
Bool(b) == [t |-> "boolean", v |-> b]
Arr(s) == [t |-> "array", v |-> s]

\* JavaScript truthiness: undefined, null, "", 0 and false are falsy
Truthy(x) ==
    /\ x.t \notin {"undefined", "null"}
    /\ ~(x.t = "string" /\ x.v = "")
    /\ ~(x.t = "number" /\ x.v = 0)
    /\ ~(x.t = "boolean" /\ x.v = FALSE)

\* JavaScript a || b
Or(a, b) == IF Truthy(a) THEN a ELSE b

\* an ExecutionResult.output value, and the default `{ response: {} }`
OutputOf(r) == [t |-> "object", response |-> r]
DefaultOutput == OutputOf("{}")
\* a metadata object of a response body
MetaOf(s, e, d) == [t |-> "object", startTime |-> s, endTime |-> e, duration |-> d]

\* a parsed JSON object body; absent fields are Undef
Body(o, e, m, l, md, s, w) ==
    [t |-> "object", output |-> o, error |-> e, message |-> m, logs |-> l,
     metadata |-> md, success |-> s, workflow |-> w]
\* the `{}` that checkResponse starts from
EmptyObject == Body(Undef, Undef, Undef, Undef, Undef, Undef, Undef)
\* a body that is not JSON: response.json() rejects
NonJson == [t |-> "nonjson"]

\* property access on a parsed body (x.f, undefined when x has no such field)
Get(x, f) == IF x.t = "object" /\ f \in DOMAIN x THEN x[f] ELSE Undef
\* optional chaining x?.f
GetOpt(x, f) == IF x.t \in {"undefined", "null"} THEN Undef ELSE Get(x, f)

(***************************************************************************)
(* What the remote side can answer.                                        *)
(***************************************************************************)
ServerErrorText == "Invalid workflow data"
ServerIds == {"new-workflow-id"}
GivenIds == {"existing-workflow-id"}

OutputVals == {Undef, JNull, OutputOf("r1")}
ErrorVals == {Undef, Str(ServerErrorText)}
MessageVals == {Undef, Str("Access denied")}
LogsVals == {Undef, Arr(<<"log1">>)}
MetaVals == {Undef, MetaOf(Num(1), Num(2), Num(1))}

\* bodies of a non-2xx answer
ErrorBodies ==
    {NonJson, JNull} \cup
    {Body(o, e, m, l, Undef, Undef, Undef) :
        o \in OutputVals, e \in ErrorVals, m \in MessageVals, l \in LogsVals}
\* bodies of a 2xx answer of the execute endpoint
ExecBodies ==
    {Body(o, e, Undef, l, md, s, Undef) :
        o \in {Undef, OutputOf("r1")}, e \in ErrorVals, l \in LogsVals,
        md \in MetaVals, s \in {Bool(TRUE), Bool(FALSE)}}
\* bodies of a 2xx answer of a save or get endpoint: the stored workflow
WorkflowBodies ==
    {Body(Undef, Undef, Undef, Undef, Undef, Undef, w) :
        w \in {Undef} \cup {[t |-> "object", id |-> Str(i)] : i \in ServerIds \cup GivenIds}}

StatusText(s) ==
    CASE s = 200 -> "OK"
      [] s = 400 -> "Bad Request"
      [] s = 403 -> "Forbidden"
      [] OTHER -> "Internal Server Error"
StatusStr(s) ==
    CASE s = 200 -> "200"
      [] s = 400 -> "400"
      [] s = 403 -> "403"
      [] OTHER -> "500"
ErrorStatuses == {400, 500}

Http(s, b) == [kind |-> "http", ok |-> (s = 200), status |-> s, body |-> b]
\* fetch rejected: the timeout aborted it, or the network failed
Rejected(n) == [kind |-> "reject", name |-> n, message |-> <<"fetch failed">>]

ErrorResponses == {Http(s, b) : s \in ErrorStatuses, b \in ErrorBodies}
Rejections == {Rejected("AbortError"), Rejected("TypeError")}
ExecResponses == {Http(200, b) : b \in ExecBodies} \cup ErrorResponses \cup Rejections
SaveResponses == {Http(200, b) : b \in WorkflowBodies} \cup ErrorResponses \cup Rejections

(***************************************************************************)
(* Errors.  A message is the sequence of the parts of its template string. *)
(***************************************************************************)
Err(n, msg, st, api, data) ==
    [name |-> n, message |-> msg, status |-> st, apiResponse |-> api, data |-> data]
\* the error fetch rejects with
FetchError(resp) == Err(resp.name, resp.message, Undef, Undef, Undef)
\* message as it appears inside another template string
MsgText(msg) == IF Len(msg) = 0 THEN <<"Unknown error">> ELSE msg
Contains(msg, part) == \E k \in 1..Len(msg) : msg[k] = part

Thrown(e) == [kind |-> "throw", error |-> e]
Returned(v) == [kind |-> "return", value |-> v]
Pending == [kind |-> "none"]

(***************************************************************************)
(* Executor (sdk/src/executor): the pure parts.                            *)
(***************************************************************************)
\* `API error: ${response.status} ${response.statusText}`
ApiErrorMessage(resp) ==
    <<"API error: ", StatusStr(resp.status), " ", StatusText(resp.status)>>

\* await response.json(): the parsed body, or a rejection
JsonFails(resp) == resp.body.t = "nonjson"

\* checkResponse: resolves for a 2xx answer, otherwise throws an error that
\* carries the status and the parsed body ({} when the body is not JSON)
CheckResponse(resp) ==
    IF resp.ok
    THEN [kind |-> "ok"]
    ELSE Thrown(Err("Error", ApiErrorMessage(resp), Num(resp.status),
                    IF JsonFails(resp) THEN EmptyObject ELSE resp.body, Undef))

\* `${statusCode}` of error.status
StatusCodeText(st) == IF st.t = "number" THEN StatusStr(st.v) ELSE "undefined"

HandleApiErrorNoServerText(error, defaultMessage) ==
    IF error.name = "AbortError"
    THEN Err("Error", <<"Request timeout: ", defaultMessage>>, Undef, Undef, Undef)
    ELSE IF Truthy(error.apiResponse)
    THEN Err("Error", <<defaultMessage, " (Status: ", StatusCodeText(error.status), ")">>,
             error.status, Undef, error.apiResponse)
    ELSE Err("Error", <<defaultMessage, ": ">> \o MsgText(error.message), Undef, Undef, Undef)

\* handleApiError: the error the public methods throw
HandleApiError(error, defaultMessage) ==
    IF error.name = "AbortError"
    THEN Err("Error", <<"Request timeout: ", defaultMessage>>, Undef, Undef, Undef)
    ELSE IF Truthy(error.apiResponse)
    THEN LET message == Or(Or(Get(error.apiResponse, "error"),
                              Get(error.apiResponse, "message")),
                           Str(defaultMessage))
         IN Err("Error", <<message.v, " (Status: ", StatusCodeText(error.status), ")">>,
                error.status, Undef, error.apiResponse)
    ELSE Err("Error", <<defaultMessage, ": ">> \o MsgText(error.message), Undef, Undef, Undef)

\* the ExecutionResult built from a parsed body
ResultOf(success, data, defaultError) ==
    [success |-> success,
     output |-> Or(Get(data, "output"), DefaultOutput),
     error |-> Or(Get(data, "error"), defaultError),
     logs |-> Or(Get(data, "logs"), Arr(<<>>)),
     metadata |-> MetaOf(GetOpt(Get(data, "metadata"), "startTime"),
                         GetOpt(Get(data, "metadata"), "endTime"),
                         GetOpt(Get(data, "metadata"), "duration"))]

\* the catch clause of execute: an error that carries status and apiResponse
\* is rethrown as it is, any other goes through handleApiError
ExecuteCatch(error) ==
    IF Truthy(error.status) /\ Truthy(error.apiResponse)
    THEN Thrown(error)
    ELSE Thrown(HandleApiError(error, "Failed to execute workflow"))

HasExecutionDataFromLogs(errorData) ==
    Truthy(errorData) /\ Get(errorData, "logs").t # "undefined"

\* a non-2xx answer whose body embeds execution data
HasExecutionData(errorData) ==
    Truthy(errorData) /\ Get(errorData, "output").t # "undefined"

\* execute, from the answer of the execute endpoint to what the call yields
ExecuteOutcome(resp) ==
    IF resp.kind = "reject"
    THEN ExecuteCatch(FetchError(resp))
    ELSE IF ~resp.ok
    THEN IF JsonFails(resp)
         THEN \* the body cannot be parsed: checkResponse throws
              ExecuteCatch(CheckResponse(resp).error)
         ELSE IF HasExecutionData(resp.body)
         THEN Returned(ResultOf(Bool(FALSE), resp.body, Str("Execution failed")))
         ELSE ExecuteCatch(Err("Error", ApiErrorMessage(resp), Num(resp.status),
                               resp.body, Undef))
    ELSE IF JsonFails(resp)
    THEN ExecuteCatch(Err("SyntaxError", <<"Unexpected token">>, Undef, Undef, Undef))
    ELSE IF resp.body.t = "null"
    THEN ExecuteCatch(Err("TypeError", <<"Cannot read properties of null">>,
                          Undef, Undef, Undef))
    ELSE Returned(ResultOf(Get(resp.body, "success"), resp.body, Undef))

(***************************************************************************)
(* The SDK call in progress.                                               *)
(***************************************************************************)
VARIABLES
    xpc,          \* "idle", "save", "exec", "get" (a request is in flight), "done"
    xop,          \* the method called
    xarg,         \* the id of the workflow passed in (Undef when it has none)
    xworkflowId,  \* the id the call works with
    xreqs,        \* the requests the call has sent, in order
    xresps,       \* the answers the call has received, in order
    xout,         \* what the call has yielded
    uuidCtr,      \* number of UUIDs generated so far
    ncalls        \* number of calls made so far

sdkVars == <<xpc, xop, xarg, xworkflowId, xreqs, xresps, xout, uuidCtr, ncalls>>

UuidNames == <<"uuid-1", "uuid-2", "uuid-3", "uuid-4", "uuid-5", "uuid-6">>
\* crypto.randomUUID(): the n-th value generated, never one generated before
RandomUUID(n) == Str(UuidNames[n])

WorkflowArgs == {Undef} \cup {Str(i) : i \in GivenIds}

\* a request: method, url (parts of the template string) and, for the
\* /api/db/workflow payload, the key of the entry and the entry's id field
Request(m, u, k, e) == [method |-> m, url |-> u, key |-> k, entryId |-> e]
SaveUrl == <<"/api/db/workflow">>
ExecuteUrl(id) == <<"/api/workflow/", id.v, "/execute">>
WorkflowUrl(id) == <<"/api/workflow/", id.v>>
CreateUrl == <<"/api/workflows">>

InitSdk ==
    /\ xpc = "idle"
    /\ xop = "none"
    /\ xarg = Undef
    /\ xworkflowId = Undef
    /\ xreqs = <<>>
    /\ xresps = <<>>
    /\ xout = Pending
    /\ uuidCtr = 0
    /\ ncalls = 0

\* a call starts: the state local to the previous call is dropped
StartCall(op, arg) ==
    /\ xpc \in {"idle", "done"}
    /\ ncalls < MaxCalls
    /\ ncalls' = ncalls + 1
    /\ xop' = op
    /\ xarg' = arg
    /\ xresps' = <<>>
    /\ xout' = Pending

\* the call ends with outcome o
EndCall(o) ==
    /\ xpc' = "done"
    /\ xout' = o

\* Executor.execute(workflowId, input): the request is sent
Execute(id) ==
    /\ StartCall("execute", id)
    /\ xworkflowId' = id
    /\ xreqs' = <<Request("POST", ExecuteUrl(id), Undef, Undef)>>
    /\ xpc' = "exec"
    /\ UNCHANGED uuidCtr

\* Executor.execute: the answer arrives (also for the execute that
\* executeWorkflow returns without awaiting it: its outcome passes through)
ExecuteResponse(resp) ==
    /\ xpc = "exec"
    /\ xresps' = Append(xresps, resp)
    /\ EndCall(ExecuteOutcome(resp))
    /\ UNCHANGED <<xop, xarg, xworkflowId, xreqs, uuidCtr, ncalls>>

\* Executor.executeWorkflow(workflow, input): the id is chosen and the save
\* request is sent
ExecuteWorkflow(wfid) ==
    /\ StartCall("executeWorkflow", wfid)
    /\ Truthy(wfid) \/ uuidCtr < MaxUuid
    /\ LET workflowId == Or(wfid, RandomUUID(uuidCtr + 1))
       IN /\ xworkflowId' = workflowId
          /\ xreqs' = <<Request("POST", SaveUrl, workflowId, workflowId)>>
    /\ uuidCtr' = IF Truthy(wfid) THEN uuidCtr ELSE uuidCtr + 1
    /\ xpc' = "save"

ExecuteWorkflowSaveResponseUnchecked(resp) ==
    /\ xpc = "save"
    /\ xop = "executeWorkflow"
    /\ xresps' = Append(xresps, resp)
    /\ IF resp.kind = "reject"
       THEN /\ EndCall(Thrown(HandleApiError(FetchError(resp), "Failed to execute workflow")))
            /\ UNCHANGED xreqs
       ELSE /\ xreqs' = Append(xreqs, Request("POST", ExecuteUrl(xworkflowId), Undef, Undef))
            /\ xpc' = "exec"
            /\ UNCHANGED xout
    /\ UNCHANGED <<xop, xarg, xworkflowId, uuidCtr, ncalls>>

\* Executor.executeWorkflow: the answer to the save request arrives; the
\* answer is checked and the execute request is sent
ExecuteWorkflowSaveResponse(resp) ==
    /\ xpc = "save"
    /\ xop = "executeWorkflow"
    /\ xresps' = Append(xresps, resp)
    /\ IF resp.kind = "reject"
       THEN /\ EndCall(Thrown(HandleApiError(FetchError(resp), "Failed to execute workflow")))
            /\ UNCHANGED xreqs
       ELSE IF CheckResponse(resp).kind = "throw"
       THEN /\ EndCall(Thrown(HandleApiError(CheckResponse(resp).error,
                                             "Failed to execute workflow")))
            /\ UNCHANGED xreqs
       ELSE /\ xreqs' = Append(xreqs, Request("POST", ExecuteUrl(xworkflowId), Undef, Undef))
            /\ xpc' = "exec"
            /\ UNCHANGED xout
    /\ UNCHANGED <<xop, xarg, xworkflowId, uuidCtr, ncalls>>

(***************************************************************************)
(* SimStudio (sdk/src/core.ts): saveWorkflow in its two versions, and the  *)
(* getWorkflow the later version ends with.                                *)
(***************************************************************************)
\* the Workflow object built from `data.workflow` of a parsed body; reading
\* `data.workflow.id` of a body without workflow throws a TypeError
WorkflowOf(resp, defaultMessage) ==
    IF JsonFails(resp)
    THEN Thrown(HandleApiError(Err("SyntaxError", <<"Unexpected token">>, Undef, Undef, Undef),
                               defaultMessage))
    ELSE IF Get(resp.body, "workflow").t # "object"
    THEN Thrown(HandleApiError(Err("TypeError", <<"Cannot read properties of undefined">>,
                                   Undef, Undef, Undef), defaultMessage))
    ELSE Returned([id |-> resp.body.workflow.id])

\* getWorkflow, from the answer to what the call yields.  checkResponse is
\* called without await: its rejection is not seen by getWorkflow, and it has
\* taken the body of a non-2xx answer, so that the second response.json()
\* rejects with a TypeError
GetWorkflowOutcome(resp) ==
    IF resp.kind = "reject"
    THEN Thrown(HandleApiError(FetchError(resp), "Failed to retrieve workflow"))
    ELSE IF ~resp.ok
    THEN Thrown(HandleApiError(Err("TypeError", <<"Body is unusable">>, Undef, Undef, Undef),
                               "Failed to retrieve workflow"))
    ELSE WorkflowOf(resp, "Failed to retrieve workflow")

\* saveWorkflow (first version): PUT for a workflow with an id, POST without
SaveWorkflowV1(wfid) ==
    /\ StartCall("saveWorkflowV1", wfid)
    /\ xworkflowId' = wfid
    /\ xreqs' = IF Truthy(wfid)
                THEN <<Request("PUT", WorkflowUrl(wfid), Undef, Undef)>>
                ELSE <<Request("POST", CreateUrl, Undef, Undef)>>
    /\ xpc' = "save"
    /\ UNCHANGED uuidCtr

\* saveWorkflow (first version): the answer arrives
SaveWorkflowV1Response(resp) ==
    /\ xpc = "save"
    /\ xop = "saveWorkflowV1"
    /\ xresps' = Append(xresps, resp)
    /\ IF resp.kind = "reject"
       THEN EndCall(Thrown(HandleApiError(FetchError(resp), "Failed to save workflow")))
       ELSE IF CheckResponse(resp).kind = "throw"
       THEN EndCall(Thrown(HandleApiError(CheckResponse(resp).error, "Failed to save workflow")))
       ELSE EndCall(WorkflowOf(resp, "Failed to save workflow"))
    /\ UNCHANGED <<xop, xarg, xworkflowId, xreqs, uuidCtr, ncalls>>

\* saveWorkflow (later version): always POST to /api/db/workflow; the key of
\* the entry and its id field are each `workflow.id || crypto.randomUUID()`
SaveWorkflowV2(wfid) ==
    /\ StartCall("saveWorkflowV2", wfid)
    /\ Truthy(wfid) \/ uuidCtr + 1 < MaxUuid
    /\ LET key == Or(wfid, RandomUUID(uuidCtr + 1))
           entryId == Or(wfid, RandomUUID(uuidCtr + 2))
       IN /\ xworkflowId' = key
          /\ xreqs' = <<Request("POST", SaveUrl, key, entryId)>>
    /\ uuidCtr' = IF Truthy(wfid) THEN uuidCtr ELSE uuidCtr + 2
    /\ xpc' = "save"

\* saveWorkflow (later version): the answer to the POST arrives; on success
\* the workflow is fetched back under the key of the payload
SaveWorkflowV2Response(resp) ==
    /\ xpc = "save"
    /\ xop = "saveWorkflowV2"
    /\ xresps' = Append(xresps, resp)
    /\ IF resp.kind = "reject"
       THEN /\ EndCall(Thrown(HandleApiError(FetchError(resp), "Failed to save workflow")))
            /\ UNCHANGED xreqs
       ELSE IF CheckResponse(resp).kind = "throw"
       THEN /\ EndCall(Thrown(HandleApiError(CheckResponse(resp).error,
                                             "Failed to save workflow")))
            /\ UNCHANGED xreqs
       ELSE /\ xreqs' = Append(xreqs, Request("GET", WorkflowUrl(xworkflowId), Undef, Undef))
            /\ xpc' = "get"
            /\ UNCHANGED xout
    /\ UNCHANGED <<xop, xarg, xworkflowId, uuidCtr, ncalls>>

\* saveWorkflow (later version): the answer to the GET arrives; an error of
\* getWorkflow goes through handleApiError a second time
GetWorkflowResponse(resp) ==
    /\ xpc = "get"
    /\ xresps' = Append(xresps, resp)
    /\ LET got == GetWorkflowOutcome(resp)
       IN IF got.kind = "throw"
          THEN EndCall(Thrown(HandleApiError(got.error, "Failed to save workflow")))
          ELSE EndCall(got)
    /\ UNCHANGED <<xop, xarg, xworkflowId, xreqs, uuidCtr, ncalls>>

(***************************************************************************)
(* SimStudio (sdk/src/core.ts): the methods that call checkResponse        *)
(* without awaiting it.                                                    *)
(***************************************************************************)
DeploymentUrl(id) == <<"/api/workflow/", id.v, "/deployment">>
DeployUrl(id) == <<"/api/workflow/", id.v, "/deploy">>
ScheduleUrl(id) == <<"/api/workflow/", id.v, "/schedule">>
SchedulesUrl(id) == <<"/api/workflow/", id.v, "/schedules">>
ScheduleIdUrl(id) == <<"/api/schedules/", id.v>>

\* per method: the verb, the url, the default message of its catch clause and
\* what it yields of the parsed body ("void": the body is never read;
\* "body": the parsed body; otherwise the field of that name)
ApiMethod(verb, url, message, yields) ==
    [verb |-> verb, url |-> url, message |-> message, yields |-> yields]
ApiMethods(id) ==
    [getWorkflow |-> ApiMethod("GET", WorkflowUrl(id), "Failed to retrieve workflow", "workflow"),
     listWorkflows |-> ApiMethod("GET", CreateUrl, "Failed to list workflows", "workflows"),
     deleteWorkflow |-> ApiMethod("DELETE", WorkflowUrl(id), "Failed to delete workflow", "void"),
     deployWorkflow |-> ApiMethod("POST", DeployUrl(id), "Failed to deploy workflow", "body"),
     getDeployment |-> ApiMethod("GET", DeploymentUrl(id), "Failed to get deployment details", "body"),
     undeployWorkflow |-> ApiMethod("DELETE", DeploymentUrl(id), "Failed to undeploy workflow", "void"),
     scheduleWorkflow |-> ApiMethod("POST", ScheduleUrl(id), "Failed to schedule workflow", "body"),
     getSchedule |-> ApiMethod("GET", ScheduleIdUrl(id), "Failed to get schedule", "body"),
     listSchedules |-> ApiMethod("GET", SchedulesUrl(id), "Failed to list schedules", "schedules"),
     deleteSchedule |-> ApiMethod("DELETE", ScheduleIdUrl(id), "Failed to delete schedule", "void")]
ApiMethodNames == DOMAIN ApiMethods(Str("existing-workflow-id"))

\* what a method yields from the answer when its checkResponse is awaited
ApiOutcomeChecked(m, resp) ==
    IF resp.kind = "reject"
    THEN Thrown(HandleApiError(FetchError(resp), m.message))
    ELSE IF CheckResponse(resp).kind = "throw"
    THEN Thrown(HandleApiError(CheckResponse(resp).error, m.message))
    ELSE IF m.yields = "void"
    THEN Returned(Undef)
    ELSE IF JsonFails(resp)
    THEN Thrown(HandleApiError(Err("SyntaxError", <<"Unexpected token">>, Undef, Undef, Undef),
                               m.message))
    ELSE IF m.yields = "body"
    THEN Returned(resp.body)
    ELSE IF resp.body.t = "null"
    THEN Thrown(HandleApiError(Err("TypeError", <<"Cannot read properties of null">>,
                                   Undef, Undef, Undef), m.message))
    ELSE Returned(Get(resp.body, m.yields))

\* what a method yields from the answer.  `this.checkResponse(response)` is
\* called without await: its rejection is never seen by the method.  A method
\* that reads no body resolves; one that reads the body of a non-2xx answer
\* finds it taken by checkResponse, and its response.json() rejects with a
\* TypeError that carries no status
ApiOutcome(m, resp) ==
    IF resp.kind = "reject"
    THEN Thrown(HandleApiError(FetchError(resp), m.message))
    ELSE IF m.yields = "void"
    THEN Returned(Undef)
    ELSE IF ~resp.ok
    THEN Thrown(HandleApiError(Err("TypeError", <<"Body is unusable">>, Undef, Undef, Undef),
                               m.message))
    ELSE ApiOutcomeChecked(m, resp)

\* one of these methods is called: the request is sent
ApiCall(name, id) ==
    /\ StartCall(name, id)
    /\ xworkflowId' = id
    /\ xreqs' = <<Request(ApiMethods(id)[name].verb, ApiMethods(id)[name].url, Undef, Undef)>>
    /\ xpc' = "api"
    /\ UNCHANGED uuidCtr

\* the answer arrives
ApiResponse(resp) ==
    /\ xpc = "api"
    /\ xresps' = Append(xresps, resp)
    /\ EndCall(ApiOutcome(ApiMethods(xarg)[xop], resp))
    /\ UNCHANGED <<xop, xarg, xworkflowId, xreqs, uuidCtr, ncalls>>

(***************************************************************************)
(* The control bar's multi-run controller (handleMultipleRuns) and the     *)
(* usage check with its module-level cache (checkUserUsage).               *)
(***************************************************************************)
\* number of batches the model follows
MaxBatches == 2
\* largest run count offered to the user in the model
MaxRunCount == 10
\* number of steps the clock makes
MaxTicks == 2

RUN_COUNT_OPTIONS == {1, 5, 10, 25, 50, 100}
RunCounts == {c \in RUN_COUNT_OPTIONS : c <= MaxRunCount}
\* usageDataCache.expirationMs
expirationMs == 60 * 1000
\* the clock advances by half the lifetime of the cache
ClockStep == expirationMs \div 2

NoData == [t |-> "null"]
Usage(b) == [t |-> "object", isExceeded |-> b]
UsageVals == {Usage(TRUE), Usage(FALSE)}
IsExceededOrFailed(usage) == usage.t = "null" \/ usage.isExceeded
\* usage?.isExceeded
IsExceeded(usage) == usage.t = "object" /\ usage.isExceeded

VARIABLES
    runCount,         \* state: number of runs selected
    completedRuns,    \* state: the visible counter
    isMultiRunning,   \* state
    isCancelling,     \* state
    showRunProgress,  \* state
    cancelFlagRef,    \* ref: the cooperative cancellation flag
    usageExceeded,    \* state
    usageDataCache,   \* module-level cache: [data, timestamp]
    now,              \* Date.now()
    hasSession,       \* session?.user?.id is present
    activeWorkflowId, \* an active workflow is present
    bpc,              \* handleMultipleRuns: "idle", "running" (awaiting
                      \* handleRunWorkflow), "checking" (awaiting the usage fetch)
    i,                \* local: loop index
    runCounter,       \* local
    checkNow,         \* checkUserUsage's local `now` of the fetch in flight, 0
                      \* when the loop awaits none
    shownCompleted,   \* `completedRuns` as the handler's closure holds it
    notifications,    \* notifications added by the batch, in order
    statsCalls,       \* `runs` of the stats requests sent by the batch
    statsPending,     \* a stats request of the batch is in flight
    progressTimer,    \* the setTimeout that hides the progress bar is pending
    effectPending,    \* the usage effect is due (its dependencies changed)
    effectFetch,      \* the effect's usage fetch in flight: its `now`, or -1
    batches,          \* number of batches started
    runsStarted,      \* history: calls of handleRunWorkflow in this batch
    runsFinished,     \* history: calls of handleRunWorkflow that resolved
    cancelledAfter,   \* history: runsFinished when cancellation was requested
                      \* between two runs, or -1
    quotaObserved,    \* history: runsStarted when a check of this batch
                      \* observed isExceeded, or -1
    batchRuns,        \* history: runCount as the batch's handler holds it
    checks,           \* history: the calls of checkUserUsage the batch's loop
                      \* made, in order
    answered          \* observer: the last answer of the usage endpoint, where
                      \* the specification records it

stateVars == <<runCount, completedRuns, isMultiRunning, isCancelling, showRunProgress,
               cancelFlagRef, usageExceeded>>
localVars == <<bpc, i, runCounter, checkNow, shownCompleted>>
envVars == <<usageDataCache, now, hasSession, activeWorkflowId, notifications, statsCalls,
             statsPending, progressTimer, effectPending, effectFetch, batches>>
historyVars == <<runsStarted, runsFinished, cancelledAfter, quotaObserved, batchRuns,
                 checks>>
batchVars == <<stateVars, localVars, envVars, historyVars>>

\* a notification: its type and text, with the number the text shows
Note(type, text, n) == [type |-> type, text |-> text, n |-> n]
CancelledNote == Note("info", "Workflow run cancelled", 0)
QuotaNote(n) == Note("info", "Usage limit reached after N runs. Execution stopped.", n)
FailedNote == Note("error", "Failed to complete all workflow runs", 0)
CompletedNote(n) == Note("console", "Completed N workflow runs", n)

InitBatch ==
    /\ runCount = 1
    /\ completedRuns = 0
    /\ isMultiRunning = FALSE
    /\ isCancelling = FALSE
    /\ showRunProgress = FALSE
    /\ cancelFlagRef = FALSE
    /\ usageExceeded = FALSE
    /\ usageDataCache = [data |-> NoData, timestamp |-> 0]
    /\ now = 0
    /\ hasSession \in BOOLEAN
    /\ activeWorkflowId \in BOOLEAN
    /\ bpc = "idle"
    /\ i = 0
    /\ runCounter = 0
    /\ checkNow = 0
    /\ shownCompleted = 0
    /\ notifications = <<>>
    /\ statsCalls = <<>>
    /\ statsPending = FALSE
    /\ progressTimer = FALSE
    /\ effectPending = TRUE
    /\ effectFetch = -1
    /\ batches = 0
    /\ runsStarted = 0
    /\ runsFinished = 0
    /\ cancelledAfter = -1
    /\ quotaObserved = -1
    /\ batchRuns = 0
    /\ checks = <<>>
    /\ answered = Undef

\* isExecuting of useWorkflowExecution: a single run is in flight
isExecuting == bpc = "running"

UseCacheWhenForced(forceRefresh, t) ==
    /\ usageDataCache.data # NoData
    /\ t - usageDataCache.timestamp < expirationMs

\* checkUserUsage answers from the cache: no forced refresh, data present
\* and younger than expirationMs at time t
UseCache(forceRefresh, t) ==
    /\ ~forceRefresh
    /\ usageDataCache.data # NoData
    /\ t - usageDataCache.timestamp < expirationMs

ShouldCheckUsageEveryRun(k, rc) == TRUE

\* shouldCheckUsage after the run of index k in a batch of rc runs
ShouldCheckUsage(k, rc) == k = 0 \/ (k + 1) % 5 = 0 \/ k = rc - 1

\* the notification the finally block adds
FinalNote(wasCancelled, workflowError) ==
    IF wasCancelled THEN <<CancelledNote>>
    ELSE IF workflowError THEN <<FailedNote>>
    ELSE IF runCount > 1 THEN <<CompletedNote(shownCompleted)>>
    ELSE <<>>

FinallyKeepsCancelFlags(wasCancelled, workflowError, notes, stats) ==
    /\ isMultiRunning' = FALSE
    /\ IF runCount > 1
       THEN progressTimer' = TRUE /\ UNCHANGED showRunProgress
       ELSE showRunProgress' = FALSE /\ UNCHANGED progressTimer
    /\ UNCHANGED <<isCancelling, cancelFlagRef>>
    /\ notifications' = notes \o FinalNote(wasCancelled, workflowError)
    /\ statsCalls' = stats
    /\ statsPending' = (stats # statsCalls)
    /\ bpc' = "idle"

\* the finally block of handleMultipleRuns
Finally(wasCancelled, workflowError, notes, stats) ==
    /\ isMultiRunning' = FALSE
    /\ IF runCount > 1
       THEN progressTimer' = TRUE /\ UNCHANGED showRunProgress
       ELSE showRunProgress' = FALSE /\ UNCHANGED progressTimer
    /\ isCancelling' = FALSE
    /\ cancelFlagRef' = FALSE
    /\ notifications' = notes \o FinalNote(wasCancelled, workflowError)
    /\ statsCalls' = stats
    /\ statsPending' = (stats # statsCalls)
    /\ bpc' = "idle"

\* the code after the loop (the stats request, sent and not awaited) and
\* the finally block
AfterLoop(wasCancelled, notes, rc) ==
    Finally(wasCancelled, FALSE, notes,
            IF ~wasCancelled /\ activeWorkflowId THEN Append(statsCalls, rc) ELSE statsCalls)

IterateIgnoringCancel(k, notes, rc) ==
    /\ i' = k
    /\ IF k < runCount
       THEN /\ bpc' = "running"
            /\ runsStarted' = runsStarted + 1
            /\ notifications' = notes
            /\ UNCHANGED <<isMultiRunning, isCancelling, cancelFlagRef, showRunProgress,
                           progressTimer, statsCalls, statsPending>>
       ELSE /\ AfterLoop(FALSE, notes, rc)
            /\ UNCHANGED runsStarted

\* the loop goes on with index k: the test `i < runCount`, the check of
\* the cancellation flag and the call of handleRunWorkflow
Iterate(k, notes, rc) ==
    /\ i' = k
    /\ IF k < runCount /\ ~cancelFlagRef
       THEN /\ bpc' = "running"
            /\ runsStarted' = runsStarted + 1
            /\ notifications' = notes
            /\ UNCHANGED <<isMultiRunning, isCancelling, cancelFlagRef, showRunProgress,
                           progressTimer, statsCalls, statsPending>>
       ELSE /\ AfterLoop(k < runCount, notes, rc)
            /\ UNCHANGED runsStarted

AfterCheckNoBreak(usage, rc) ==
    /\ IF IsExceeded(usage)
       THEN usageExceeded' = TRUE /\ quotaObserved' = runsStarted
       ELSE UNCHANGED <<usageExceeded, quotaObserved>>
    /\ Iterate(i + 1, notifications, rc)

\* what the loop body does with the result of checkUserUsage
AfterCheck(usage, rc) ==
    IF IsExceeded(usage)
    THEN /\ usageExceeded' = TRUE
         /\ quotaObserved' = runsStarted
         /\ IF i < runCount - 1
            THEN /\ AfterLoop(FALSE, Append(notifications, QuotaNote(rc)), rc)
                 /\ UNCHANGED <<i, runsStarted>>
            ELSE Iterate(i + 1, notifications, rc)
    ELSE /\ UNCHANGED <<usageExceeded, quotaObserved>>
         /\ Iterate(i + 1, notifications, rc)

RunGuardWithoutMultiRunning == ~isExecuting /\ runCount > 0

\* the test handleMultipleRuns starts with: it returns at once when a run
\* or a batch is in progress
RunGuard == ~isExecuting /\ ~isMultiRunning /\ runCount > 0

\* handleMultipleRuns is called (run button or keyboard shortcut) and runs
\* up to its first await.  With usageExceeded set it opens the subscription
\* settings and returns, which changes nothing here.
HandleMultipleRuns ==
    /\ RunGuard
    /\ ~usageExceeded
    /\ batches < MaxBatches
    /\ batches' = batches + 1
    /\ shownCompleted' = completedRuns
    /\ completedRuns' = 0
    /\ effectPending' = (effectPending \/ completedRuns # 0)
    /\ isMultiRunning' = TRUE
    /\ isCancelling' = FALSE
    /\ cancelFlagRef' = FALSE
    /\ showRunProgress' = (runCount > 1)
    /\ runCounter' = 0
    /\ notifications' = <<>>
    /\ statsCalls' = <<>>
    /\ statsPending' = FALSE
    /\ i' = 0
    /\ bpc' = "running"
    /\ runsStarted' = 1
    /\ runsFinished' = 0
    /\ cancelledAfter' = -1
    /\ quotaObserved' = -1
    /\ batchRuns' = runCount
    /\ checks' = <<>>
    /\ UNCHANGED <<runCount, usageExceeded, usageDataCache, now, hasSession,
                   activeWorkflowId, checkNow, progressTimer, effectFetch>>

\* a call of checkUserUsage by the loop: the runs finished and the runs
\* started when it is made, and its forceRefresh
Check(after, started, forced) == [after |-> after, started |-> started, forced |-> forced]

RunResolvesCountsLate ==
    /\ bpc = "running"
    /\ runCounter' = i + 1
    /\ completedRuns' = i
    /\ effectPending' = (effectPending \/ completedRuns # i)
    /\ runsFinished' = runsFinished + 1
    /\ checks' = IF ShouldCheckUsage(i, runCount) /\ hasSession
                 THEN Append(checks, Check(runsFinished + 1, runsStarted, i = 0))
                 ELSE checks
    /\ IF ShouldCheckUsage(i, runCount) /\ hasSession
       THEN IF UseCache(i = 0, now)
            THEN /\ AfterCheck(usageDataCache.data, i + 1)
                 /\ UNCHANGED <<usageDataCache, checkNow>>
            ELSE /\ bpc' = "checking"
                 /\ checkNow' = now
                 /\ UNCHANGED <<i, runsStarted, notifications, isMultiRunning, isCancelling,
                                cancelFlagRef, showRunProgress, progressTimer, statsCalls,
                                statsPending, usageExceeded, quotaObserved, usageDataCache>>
       ELSE /\ Iterate(i + 1, notifications, i + 1)
            /\ UNCHANGED <<usageExceeded, quotaObserved, usageDataCache, checkNow>>
    /\ UNCHANGED <<runCount, now, hasSession, activeWorkflowId, shownCompleted,
                   effectFetch, batches, cancelledAfter, batchRuns>>

\* handleRunWorkflow resolves: the counter is set, and the usage is checked
\* when due; a check answered from the cache lets the loop go on at once
RunResolves ==
    /\ bpc = "running"
    /\ runCounter' = i + 1
    /\ completedRuns' = i + 1
    /\ effectPending' = (effectPending \/ completedRuns # i + 1)
    /\ runsFinished' = runsFinished + 1
    /\ checks' = IF ShouldCheckUsage(i, runCount) /\ hasSession
                 THEN Append(checks, Check(runsFinished + 1, runsStarted, i = 0))
                 ELSE checks
    /\ IF ShouldCheckUsage(i, runCount) /\ hasSession
       THEN IF UseCache(i = 0, now)
            THEN /\ AfterCheck(usageDataCache.data, i + 1)
                 /\ UNCHANGED <<usageDataCache, checkNow>>
            ELSE /\ bpc' = "checking"
                 /\ checkNow' = now
                 /\ UNCHANGED <<i, runsStarted, notifications, isMultiRunning, isCancelling,
                                cancelFlagRef, showRunProgress, progressTimer, statsCalls,
                                statsPending, usageExceeded, quotaObserved, usageDataCache>>
       ELSE /\ Iterate(i + 1, notifications, i + 1)
            /\ UNCHANGED <<usageExceeded, quotaObserved, usageDataCache, checkNow>>
    /\ UNCHANGED <<runCount, now, hasSession, activeWorkflowId, shownCompleted,
                   effectFetch, batches, cancelledAfter, batchRuns>>

\* handleRunWorkflow rejects: the catch clause and the finally block
RunThrows ==
    /\ bpc = "running"
    /\ Finally(FALSE, TRUE, notifications, statsCalls)
    /\ UNCHANGED <<runCount, completedRuns, usageExceeded, usageDataCache, now, hasSession,
                   activeWorkflowId, i, runCounter, checkNow, shownCompleted, effectPending,
                   effectFetch, batches, historyVars>>

\* the usage fetch of the batch's check is answered: usage data, or a
\* failure (r = NoData), for which checkUserUsage returns null
UsageResponse(r) ==
    /\ bpc = "checking"
    /\ usageDataCache' = IF r # NoData
                         THEN [data |-> r, timestamp |-> checkNow]
                         ELSE usageDataCache
    /\ AfterCheck(r, runCounter)
    /\ checkNow' = 0
    /\ UNCHANGED <<runCount, completedRuns, now, hasSession, activeWorkflowId, runCounter,
                   shownCompleted, effectPending, effectFetch, batches,
                   runsFinished, cancelledAfter, batchRuns, checks>>

\* the cancel button, shown while isMultiRunning, is clicked; a click is
\* handled only while handleMultipleRuns waits
CancelClick ==
    /\ isMultiRunning /\ ~isCancelling
    /\ bpc \in {"running", "checking"}
    /\ cancelFlagRef' = TRUE
    /\ isCancelling' = TRUE
    /\ cancelledAfter' = IF bpc = "checking" THEN runsFinished ELSE cancelledAfter
    /\ UNCHANGED <<runCount, completedRuns, isMultiRunning, showRunProgress, usageExceeded,
                   localVars, envVars, runsStarted, runsFinished, quotaObserved,
                   batchRuns, checks>>

\* an entry of the run-count dropdown, shown while no batch runs, is clicked
SetRunCount(count) ==
    /\ ~isMultiRunning /\ bpc = "idle"
    /\ count # runCount
    /\ runCount' = count
    /\ UNCHANGED <<completedRuns, isMultiRunning, isCancelling, showRunProgress,
                   cancelFlagRef, usageExceeded, localVars, envVars, historyVars>>

\* the timer that hides the progress bar a second after a batch fires
HideProgress ==
    /\ progressTimer
    /\ progressTimer' = FALSE
    /\ showRunProgress' = FALSE
    /\ UNCHANGED <<runCount, completedRuns, isMultiRunning, isCancelling, cancelFlagRef,
                   usageExceeded, localVars, usageDataCache, now, hasSession,
                   activeWorkflowId, notifications, statsCalls, statsPending, effectPending,
                   effectFetch, batches, historyVars>>

\* time passes (the one-second timer fires before a clock step is over)
Tick ==
    /\ now < MaxTicks * ClockStep
    /\ ~progressTimer
    /\ now' = now + ClockStep
    /\ UNCHANGED <<stateVars, localVars, usageDataCache, hasSession, activeWorkflowId,
                   notifications, statsCalls, statsPending, progressTimer, effectPending,
                   effectFetch, batches, historyVars>>

\* the effect on [session?.user?.id, completedRuns] runs: checkUserUsage
\* without forced refresh, then setUsageExceeded
UsageEffect ==
    /\ effectPending
    /\ effectFetch = -1
    /\ effectPending' = FALSE
    /\ IF hasSession /\ UseCache(FALSE, now)
       THEN usageExceeded' = usageDataCache.data.isExceeded /\ UNCHANGED effectFetch
       ELSE IF hasSession
       THEN effectFetch' = now /\ UNCHANGED usageExceeded
       ELSE UNCHANGED <<usageExceeded, effectFetch>>
    /\ UNCHANGED <<runCount, completedRuns, isMultiRunning, isCancelling, showRunProgress,
                   cancelFlagRef, localVars, usageDataCache, now, hasSession,
                   activeWorkflowId, notifications, statsCalls, statsPending, progressTimer,
                   batches, historyVars>>

\* the usage fetch of the effect is answered
UsageEffectResponse(r) ==
    /\ effectFetch # -1
    /\ effectFetch' = -1
    /\ IF r # NoData
       THEN /\ usageDataCache' = [data |-> r, timestamp |-> effectFetch]
            /\ usageExceeded' = r.isExceeded
       ELSE UNCHANGED <<usageDataCache, usageExceeded>>
    /\ UNCHANGED <<runCount, completedRuns, isMultiRunning, isCancelling, showRunProgress,
                   cancelFlagRef, localVars, now, hasSession, activeWorkflowId,
                   notifications, statsCalls, statsPending, progressTimer, effectPending,
                   batches, historyVars>>

\* the stats request is answered, or fails (ok = FALSE): its catch handler
\* logs, and nothing else happens
StatsResponse(ok) ==
    /\ statsPending
    /\ statsPending' = FALSE
    /\ UNCHANGED <<stateVars, localVars, usageDataCache, now, hasSession, activeWorkflowId,
                   notifications, statsCalls, progressTimer, effectPending, effectFetch,
                   batches, historyVars>>

(***************************************************************************)
(* The Gmail polling service (pollGmailWebhooks): per active webhook one   *)
(* task; the tasks of one call run concurrently and meet at allSettled.    *)
(***************************************************************************)
\* number of calls of pollGmailWebhooks the model follows
MaxPolls == 2
\* number of messages the mailboxes hold; a larger id is a more recent message
MaxMessages == 2
\* `config.maxEmailsPerPoll || 100`
DefaultMaxEmailsPerPoll == 100
\* `newProcessedIds.slice(-100)`
ProcessedIdsKept == 100

Webhooks == {"w1", "w2"}
MessageIds == 1..MaxMessages
HistoryIds == {Str("h1")}

\* array.slice(0, n)
SliceFirst(s, n) == SubSeq(s, 1, IF n < Len(s) THEN n ELSE Len(s))
SliceLastKeepsOldest(s, n) == SubSeq(s, 1, IF n < Len(s) THEN n ELSE Len(s))
\* array.slice(-n)
SliceLast(s, n) == SubSeq(s, IF n < Len(s) THEN Len(s) - n + 1 ELSE 1, Len(s))
\* array.includes(x)
Includes(s, x) == \E k \in 1..Len(s) : s[k] = x
\* [...set].sort().reverse(): the ids, most recent first
RECURSIVE SortedReverse(_)
SortedReverse(ids) ==
    IF ids = {}
    THEN <<>>
    ELSE LET m == CHOOSE x \in ids : \A y \in ids : y <= x
         IN <<m>> \o SortedReverse(ids \ {m})

\* a message as getEmailDetails returns it
Email(id, labels) == [id |-> id, labelIds |-> labels]
\* the labels the mailbox holds a message under
MailLabels == {{"INBOX"}, {"SPAM"}}

\* providerConfig of a webhook row (without lastCheckedTimestamp, which the
\* service writes and never reads)
Config(userId, processIncomingEmails, markAsRead, singleEmailMode, labelIds, behavior) ==
    [userId |-> userId, processIncomingEmails |-> processIncomingEmails,
     markAsRead |-> markAsRead, singleEmailMode |-> singleEmailMode,
     maxEmailsPerPoll |-> Undef, labelIds |-> labelIds, labelFilterBehavior |-> behavior,
     historyId |-> Undef, processedEmailIds |-> <<>>]
\* the configurations a webhook is registered with
InitialConfigs ==
    {Config(u, p, m, s, l, "INCLUDE") :
        u \in {Undef, Str("user-1")}, p \in BOOLEAN, m \in BOOLEAN, s \in BOOLEAN,
        l \in {<<>>, <<"INBOX">>}}

\* filterEmailsByLabels
FilterEmailsByLabels(emails, config) ==
    IF Len(config.labelIds) = 0
    THEN emails
    ELSE LET hasMatchingLabel(email) ==
                 \E k \in 1..Len(config.labelIds) : config.labelIds[k] \in email.labelIds
         IN SelectSeq(emails,
                      LAMBDA email : IF config.labelFilterBehavior = "INCLUDE"
                                     THEN hasMatchingLabel(email)
                                     ELSE ~hasMatchingLabel(email))

\* what fetchNewEmails and searchEmails return
Fetched(emails, latestHistoryId) == [emails |-> emails, latestHistoryId |-> latestHistoryId]

\* an answer of the messages (search) endpoint: the ids it lists, most recent
\* first, the labels and the historyId getEmailDetails reports
SearchAnswer(kind, ids, labels, historyId, detailsFail) ==
    [kind |-> kind, ids |-> ids, labels |-> labels, historyId |-> historyId,
     detailsFail |-> detailsFail]
\* an answer of the history endpoint: whether `history` has entries, the ids
\* of their messagesAdded and the `historyId` of the answer
HistoryAnswer(kind, hasHistory, ids, labels, historyId, detailsFail) ==
    [kind |-> kind, hasHistory |-> hasHistory, ids |-> ids, labels |-> labels,
     historyId |-> historyId, detailsFail |-> detailsFail]

LabelChoices == [MessageIds -> MailLabels]
AllInbox == [m \in MessageIds |-> {"INBOX"}]
\* the answers the search can give over a mailbox that holds `mailbox`; the
\* search does not look at the labels of what it lists
SearchAnswers(mailbox) ==
    {SearchAnswer(k, {}, AllInbox, Undef, FALSE) : k \in {"throw", "notok"}} \cup
    {SearchAnswer("ok", ids, AllInbox, h, d) :
        ids \in SUBSET mailbox, h \in {Undef} \cup HistoryIds, d \in BOOLEAN}
\* the labels of the messages `ids` (what the labels of the others are makes
\* no difference to an answer that lists `ids`)
LabelsOf(ids) == {l \in LabelChoices : \A m \in MessageIds \ ids : l[m] = AllInbox[m]}
\* the answers the history endpoint can give over that mailbox: a throw, a
\* refusal, an answer without history, and the answers that list messages
HistoryAnswers(mailbox) ==
    {HistoryAnswer(k, FALSE, {}, AllInbox, Undef, FALSE) : k \in {"throw", "notok"}} \cup
    {HistoryAnswer("ok", FALSE, {}, AllInbox, h, FALSE) : h \in {Undef} \cup HistoryIds} \cup
    UNION {{HistoryAnswer("ok", TRUE, ids, l, h, d) :
               l \in LabelsOf(ids), h \in {Undef} \cup HistoryIds, d \in BOOLEAN} :
           ids \in SUBSET mailbox}
\* the endpoint that is not asked gives no answer
NotAsked == [kind |-> "none"]
\* the answers one fetchNewEmails can meet: the history endpoint is asked
\* when a historyId is stored, the search when none is or the history refuses
FetchAnswers(config, mailbox) ==
    IF ~Truthy(config.historyId)
    THEN {<<NotAsked, a>> : a \in SearchAnswers(mailbox)}
    ELSE {<<h, NotAsked>> : h \in {a \in HistoryAnswers(mailbox) : a.kind # "notok"}} \cup
         {<<h, a>> : h \in {a \in HistoryAnswers(mailbox) : a.kind = "notok"},
                     a \in SearchAnswers(mailbox)}

\* searchEmails
SearchEmails(config, ans) ==
    IF ans.kind # "ok" \/ ans.ids = {}
    THEN Fetched(<<>>, config.historyId)
    ELSE LET messages == SortedReverse(ans.ids)
             idsToFetch ==
                 IF config.singleEmailMode
                 THEN <<messages[1]>>
                 ELSE SliceFirst(messages, Or(config.maxEmailsPerPoll,
                                              Num(DefaultMaxEmailsPerPoll)).v)
             emails == [k \in 1..Len(idsToFetch) |->
                            Email(idsToFetch[k], ans.labels[idsToFetch[k]])]
         IN IF ans.detailsFail
            THEN Fetched(<<>>, config.historyId)
            ELSE Fetched(emails, Or(ans.historyId, config.historyId))

FetchNewEmailsWithoutFallback(config, hist, search) ==
    IF ~Truthy(config.historyId)
    THEN SearchEmails(config, search)
    ELSE IF hist.kind \in {"throw", "notok"} \/ ~hist.hasHistory
    THEN Fetched(<<>>, config.historyId)
    ELSE LET latestHistoryId == Or(hist.historyId, config.historyId)
             sortedIds == SortedReverse(hist.ids)
             idsToFetch ==
                 IF config.singleEmailMode
                 THEN <<sortedIds[1]>>
                 ELSE SliceFirst(sortedIds, Or(config.maxEmailsPerPoll,
                                               Num(DefaultMaxEmailsPerPoll)).v)
             emails == [k \in 1..Len(idsToFetch) |->
                            Email(idsToFetch[k], hist.labels[idsToFetch[k]])]
         IN IF hist.ids = {}
            THEN Fetched(<<>>, latestHistoryId)
            ELSE IF hist.detailsFail
            THEN Fetched(<<>>, config.historyId)
            ELSE Fetched(FilterEmailsByLabels(emails, config), latestHistoryId)

\* fetchNewEmails: the history endpoint when a historyId is stored, the
\* search when there is none or when the history endpoint refuses
FetchNewEmails(config, hist, search) ==
    IF ~Truthy(config.historyId)
    THEN SearchEmails(config, search)
    ELSE IF hist.kind = "throw"
    THEN Fetched(<<>>, config.historyId)
    ELSE IF hist.kind = "notok"
    THEN SearchEmails(config, search)
    ELSE IF ~hist.hasHistory
    THEN Fetched(<<>>, config.historyId)
    ELSE LET latestHistoryId == Or(hist.historyId, config.historyId)
             sortedIds == SortedReverse(hist.ids)
             idsToFetch ==
                 IF config.singleEmailMode
                 THEN <<sortedIds[1]>>
                 ELSE SliceFirst(sortedIds, Or(config.maxEmailsPerPoll,
                                               Num(DefaultMaxEmailsPerPoll)).v)
             emails == [k \in 1..Len(idsToFetch) |->
                            Email(idsToFetch[k], hist.labels[idsToFetch[k]])]
         IN IF hist.ids = {}
            THEN Fetched(<<>>, latestHistoryId)
            ELSE IF hist.detailsFail
            THEN Fetched(<<>>, config.historyId)
            ELSE Fetched(FilterEmailsByLabels(emails, config), latestHistoryId)

\* how a query was answered: "none" when it was not sent, "throw", "notok",
\* "ok", or "nodetails" when it was answered but getEmailDetails then threw
Met(ans) == IF ans.kind = "ok" /\ ans.detailsFail THEN "nodetails" ELSE ans.kind

\* the ids the query that answered lists: those of the search, or those the
\* history reports as added and whose labels pass the filter
Candidates(config, hist, search) ==
    IF ~Truthy(config.historyId) \/ hist.kind = "notok"
    THEN IF search.kind = "ok" THEN search.ids ELSE {}
    ELSE IF hist.kind = "ok" /\ hist.hasHistory
    THEN {m \in hist.ids :
              FilterEmailsByLabels(<<Email(m, hist.labels[m])>>, config) # <<>>}
    ELSE {}

VARIABLES
    db,        \* the webhook rows: per webhook its providerConfig
    dbActive,  \* the webhooks with provider 'gmail' and isActive
    ppc,       \* pollGmailWebhooks: "idle", "polling" (awaiting allSettled), "done"
    polls,     \* number of calls made so far; also the `now` of the call
    snapshot,  \* activeWebhooks: the rows as the call read them
    task,      \* per webhook, the task of the call in progress
    pollOut,   \* what the call yielded: `results`, undefined or a throw
    accepted,  \* history: per webhook and message, the number of POSTs to the
               \* trigger endpoint that were answered 2xx
    attempted  \* history: per webhook and message, the number of POSTs to the
               \* trigger endpoint that were answered or threw since the
               \* last call started

pollVars == <<db, dbActive, ppc, polls, snapshot, task, pollOut, accepted, attempted>>

\* Two requests to the polling endpoint may be in progress at once, each in
\* its own call of pollGmailWebhooks.  ppc, snapshot, task and pollOut are
\* those of the call that takes the next step, `parked` holds those of the
\* other call.
VARIABLES parked
\* the locals of one call
Call(pc, rows, tasks, out) == [ppc |-> pc, snapshot |-> rows, task |-> tasks, pollOut |-> out]

\* a task: its position, the ids of emailsToProcess, the index of the email
\* whose POST is in flight, processedCount, the historyId to store,
\* emails.length, newEmails.length and what it returned; and, as history,
\* the answers its queries met and the ids the answering query listed
Task(pc, emails, k, count, latest, found, fresh, result) ==
    [pc |-> pc, emails |-> emails, k |-> k, count |-> count, latest |-> latest,
     found |-> found, fresh |-> fresh, result |-> result,
     asked |-> [history |-> "none", search |-> "none"], listed |-> {}]
NoTask == Task("none", <<>>, 0, 0, Undef, 0, 0, Undef)
\* the task has returned; the history of its queries ends with it
TaskDone(t, result) ==
    [t EXCEPT !.pc = "done", !.result = result, !.asked = NoTask.asked, !.listed = {}]

\* the objects a task returns
Failure(webhookId, error) ==
    [t |-> "object", success |-> FALSE, webhookId |-> webhookId, error |-> error]
Status(webhookId, status) ==
    [t |-> "object", success |-> TRUE, webhookId |-> webhookId, status |-> status]
Processed(webhookId, emailsFound, newEmails, emailsProcessed) ==
    [t |-> "object", success |-> TRUE, webhookId |-> webhookId, emailsFound |-> emailsFound,
     newEmails |-> newEmails, emailsProcessed |-> emailsProcessed]

\* the service before its first call, over rows with configurations of
\* `configs`, the webhooks of one of the sets `actives` being active
InitPoll(configs, actives) ==
    /\ db \in [Webhooks -> configs]
    /\ dbActive \in actives
    /\ ppc = "idle"
    /\ polls = 0
    /\ snapshot = db
    /\ task = [w \in Webhooks |-> NoTask]
    /\ pollOut = Pending
    /\ accepted = [w \in Webhooks |-> [m \in MessageIds |-> 0]]
    /\ attempted = [w \in Webhooks |-> [m \in MessageIds |-> 0]]
    /\ parked = Call("idle", db, [w \in Webhooks |-> NoTask], Pending)

\* the task of one webhook, from the call of the callback to its first await:
\* without userId it returns at once, otherwise it awaits getOAuthToken
StartTask(w, rows) ==
    IF ~Truthy(rows[w].userId)
    THEN TaskDone(NoTask, Failure(w, <<"No user ID">>))
    ELSE [NoTask EXCEPT !.pc = "token"]

\* pollGmailWebhooks is called: the active webhooks are read and one task per
\* webhook is started; the select may throw, and without active webhook the
\* call returns undefined
PollGmailWebhooks(selectFails) ==
    /\ ppc \in {"idle", "done"}
    /\ polls < MaxPolls
    /\ polls' = polls + 1
    /\ IF selectFails
       THEN /\ ppc' = "done"
            /\ pollOut' = Thrown(Err("Error", <<"select failed">>, Undef, Undef, Undef))
            /\ task' = [w \in Webhooks |-> NoTask]
            /\ UNCHANGED snapshot
       ELSE IF dbActive = {}
       THEN /\ ppc' = "done"
            /\ pollOut' = Returned(Undef)
            /\ task' = [w \in Webhooks |-> NoTask]
            /\ UNCHANGED snapshot
       ELSE /\ ppc' = "polling"
            /\ pollOut' = Pending
            /\ snapshot' = db
            /\ task' = [w \in Webhooks |-> IF w \in dbActive THEN StartTask(w, db) ELSE NoTask]
    /\ attempted' = [w \in Webhooks |-> [m \in MessageIds |-> 0]]
    /\ UNCHANGED <<db, dbActive, accepted>>

\* what getOAuthToken yields: a token, null, or a throw
TokenOutcomes == {Returned(Str("token")), Returned(JNull),
                  Thrown(Err("Error", <<"token refresh failed">>, Undef, Undef, Undef))}
\* the message a task's catch clause reports
ErrorMessage(error) == error.message

GetOAuthTokenResponseRethrows(w, tok) ==
    /\ ppc = "polling"
    /\ task[w].pc = "token"
    /\ IF tok.kind = "throw"
       THEN /\ ppc' = "done"
            /\ pollOut' = tok
            /\ UNCHANGED task
       ELSE /\ task' = [task EXCEPT ![w] =
                  IF ~Truthy(tok.value)
                  THEN TaskDone(@, Failure(w, <<"No access token">>))
                  ELSE IF ~snapshot[w].processIncomingEmails
                  THEN TaskDone(@, Failure(w, <<"Not configured to process emails">>))
                  ELSE [@ EXCEPT !.pc = "fetch"]]
            /\ UNCHANGED <<ppc, pollOut>>
    /\ UNCHANGED <<db, dbActive, polls, snapshot, accepted, attempted>>

\* getOAuthToken has answered: without token, or when the webhook is not set
\* to process incoming emails, the task returns; otherwise it fetches
GetOAuthTokenResponse(w, tok) ==
    /\ ppc = "polling"
    /\ task[w].pc = "token"
    /\ task' = [task EXCEPT ![w] =
           IF tok.kind = "throw"
           THEN TaskDone(@, Failure(w, ErrorMessage(tok.error)))
           ELSE IF ~Truthy(tok.value)
           THEN TaskDone(@, Failure(w, <<"No access token">>))
           ELSE IF ~snapshot[w].processIncomingEmails
           THEN TaskDone(@, Failure(w, <<"Not configured to process emails">>))
           ELSE [@ EXCEPT !.pc = "fetch"]]
    /\ UNCHANGED <<db, dbActive, ppc, polls, snapshot, pollOut, accepted, attempted>>

NewEmailsUnfiltered(emails, processedEmailIds) == emails

\* emails.filter(email => !processedEmailIds.includes(email.id))
NewEmails(emails, processedEmailIds) ==
    SelectSeq(emails, LAMBDA id : ~Includes(processedEmailIds, id))

\* fetchNewEmails has returned: the emails already processed are filtered
\* out, and the first POST to the trigger endpoint is sent
FetchNewEmailsReturns(w, hist, search) ==
    /\ ppc = "polling"
    /\ task[w].pc = "fetch"
    /\ LET config == snapshot[w]
           fetchResult == FetchNewEmails(config, hist, search)
           emails == [k \in 1..Len(fetchResult.emails) |-> fetchResult.emails[k].id]
           processedEmailIds == config.processedEmailIds
           newEmails == NewEmails(emails, processedEmailIds)
           emailsToProcess == IF config.singleEmailMode /\ Len(newEmails) > 1
                              THEN <<newEmails[1]>>
                              ELSE newEmails
           latest == Or(fetchResult.latestHistoryId, config.historyId)
           next == IF Len(emails) = 0
                   THEN Task("checked", <<>>, 0, 0, latest, 0, 0, Status(w, "no_emails"))
                   ELSE IF Len(newEmails) = 0
                   THEN Task("checked", <<>>, 0, 0, latest, Len(emails), 0,
                             Status(w, "already_processed"))
                   ELSE Task("deliver", emailsToProcess, 1, 0, latest, Len(emails),
                             Len(newEmails), Undef)
       IN task' = [task EXCEPT ![w] =
              [next EXCEPT !.asked = [history |-> Met(hist), search |-> Met(search)],
                           !.listed = Candidates(config, hist, search)]]
    /\ UNCHANGED <<db, dbActive, ppc, polls, snapshot, pollOut, accepted, attempted>>

TriggerResponseStopsOnFailure(w, outcome, markFails) ==
    /\ ppc = "polling"
    /\ task[w].pc = "deliver"
    /\ LET t == task[w]
           email == t.emails[t.k]
           counted == outcome = "ok" /\ ~(snapshot[w].markAsRead /\ markFails)
           more == t.k < Len(t.emails) /\ outcome = "ok"
       IN /\ accepted' = IF outcome = "ok"
                         THEN [accepted EXCEPT ![w][email] = @ + 1]
                         ELSE accepted
          /\ attempted' = [attempted EXCEPT ![w][email] = @ + 1]
          /\ task' = [task EXCEPT ![w] =
                 [@ EXCEPT !.count = IF counted THEN @ + 1 ELSE @,
                           !.k = IF more THEN @ + 1 ELSE @,
                           !.pc = IF more THEN "deliver" ELSE "update"]]
    /\ UNCHANGED <<db, dbActive, ppc, polls, snapshot, pollOut>>

\* processEmails: the trigger endpoint has answered the POST for one email
\* (2xx, non-2xx, or the fetch threw); after a 2xx the email is marked as
\* read when so configured, and counted unless that throws; then the next
\* POST is sent, or processEmails returns
TriggerResponse(w, outcome, markFails) ==
    /\ ppc = "polling"
    /\ task[w].pc = "deliver"
    /\ LET t == task[w]
           email == t.emails[t.k]
           counted == outcome = "ok" /\ ~(snapshot[w].markAsRead /\ markFails)
       IN /\ accepted' = IF outcome = "ok"
                         THEN [accepted EXCEPT ![w][email] = @ + 1]
                         ELSE accepted
          /\ attempted' = [attempted EXCEPT ![w][email] = @ + 1]
          /\ task' = [task EXCEPT ![w] =
                 [@ EXCEPT !.count = IF counted THEN @ + 1 ELSE @,
                           !.k = IF t.k < Len(t.emails) THEN @ + 1 ELSE @,
                           !.pc = IF t.k < Len(t.emails) THEN "deliver" ELSE "update"]]
    /\ UNCHANGED <<db, dbActive, ppc, polls, snapshot, pollOut>>

\* updateWebhookLastChecked: the row is read and written back with, when
\* there is one, the historyId; the database may throw
UpdateWebhookLastChecked(w, fails) ==
    /\ ppc = "polling"
    /\ task[w].pc = "checked"
    /\ IF fails
       THEN /\ task' = [task EXCEPT ![w] = TaskDone(@, Failure(w, <<"update failed">>))]
            /\ UNCHANGED db
       ELSE /\ db' = [db EXCEPT ![w] =
                  [@ EXCEPT !.historyId = IF Truthy(task[w].latest) THEN task[w].latest ELSE @]]
            /\ task' = [task EXCEPT ![w] = TaskDone(@, @.result)]
    /\ UNCHANGED <<dbActive, ppc, polls, snapshot, pollOut, accepted, attempted>>

\* updateWebhookData: as updateWebhookLastChecked, and the ids of the emails
\* of this tick are appended to the processed ids the task read, of which
\* the last 100 are kept
UpdateWebhookData(w, fails) ==
    /\ ppc = "polling"
    /\ task[w].pc = "update"
    /\ LET t == task[w]
           newProcessedIds == snapshot[w].processedEmailIds \o t.emails
           trimmedProcessedIds == SliceLast(newProcessedIds, ProcessedIdsKept)
       IN IF fails
          THEN /\ task' = [task EXCEPT ![w] = TaskDone(@, Failure(w, <<"update failed">>))]
               /\ UNCHANGED db
          ELSE /\ db' = [db EXCEPT ![w] =
                     [@ EXCEPT !.historyId = IF Truthy(t.latest) THEN t.latest ELSE @,
                               !.processedEmailIds = trimmedProcessedIds]]
               /\ task' = [task EXCEPT ![w] =
                      TaskDone(@, Processed(w, t.found, t.fresh, t.count))]
    /\ UNCHANGED <<dbActive, ppc, polls, snapshot, pollOut, accepted, attempted>>

\* `results`, built from what allSettled gives; no task rejects, since each
\* catches what it throws
Results(tasks, active) ==
    [t |-> "object",
     total |-> Cardinality(active),
     successful |-> Cardinality({w \in active : tasks[w].result.success}),
     failed |-> Cardinality({w \in active : ~tasks[w].result.success}),
     details |-> [w \in active |-> tasks[w].result]]

\* every task has returned: allSettled resolves and the call returns `results`
AllSettled ==
    /\ ppc = "polling"
    /\ \A w \in dbActive : task[w].pc = "done"
    /\ ppc' = "done"
    /\ pollOut' = Returned(Results(task, dbActive))
    /\ UNCHANGED <<db, dbActive, polls, snapshot, task, accepted, attempted>>

\* GET of the polling endpoint while another request is in progress: the
\* call that runs reaches an await and the other call takes the next steps
Switch ==
    /\ parked' = Call(ppc, snapshot, task, pollOut)
    /\ ppc' = parked.ppc
    /\ snapshot' = parked.snapshot
    /\ task' = parked.task
    /\ pollOut' = parked.pollOut
    /\ UNCHANGED <<db, dbActive, polls, accepted, attempted>>

(***************************************************************************)
(* Execution of a workflow graph: the workflows of the integration tests,  *)
(* run block by block.  A block's output is the input of the blocks its    *)
(* outgoing connections lead to.                                           *)
(***************************************************************************)
\* largest start and limit given to the loop workflow
MaxLimit == 5
\* largest number given to the conditional workflow
MaxNumber == 3
\* number of block invocations one execution may make
MaxSteps == 20

Block(type, conditions) == [type |-> type, conditions |-> conditions]
Condition(id, expression) == [id |-> id, expression |-> expression]
Connection(source, target, sourceHandle) ==
    [source |-> source, target |-> target, sourceHandle |-> sourceHandle]
NoHandle == "none"
Workflow(blocks, connections) == [blocks |-> blocks, connections |-> connections]

\* 'Conditional Branch Test'
ConditionalWorkflow ==
    Workflow(
        [Starter |-> Block("starter", <<>>),
         InputProcessor |-> Block("function", <<>>),
         IsEvenCheck |-> Block("condition",
             <<Condition("is-even", "input.isEven === true"),
               Condition("is-odd", "input.isEven === false")>>),
         EvenHandler |-> Block("function", <<>>),
         OddHandler |-> Block("function", <<>>)],
        <<Connection("Starter", "InputProcessor", NoHandle),
          Connection("InputProcessor", "IsEvenCheck", NoHandle),
          Connection("IsEvenCheck", "EvenHandler", "condition-is-even"),
          Connection("IsEvenCheck", "OddHandler", "condition-is-odd")>>)

\* 'Loop Pattern Test'
LoopWorkflow ==
    Workflow(
        [Starter |-> Block("starter", <<>>),
         LoopInitializer |-> Block("function", <<>>),
         ContinueLoop |-> Block("condition",
             <<Condition("continue", "input.counter < input.limit"),
               Condition("exit", "input.counter >= input.limit")>>),
         ProcessIteration |-> Block("function", <<>>),
         FormatResults |-> Block("function", <<>>)],
        <<Connection("Starter", "LoopInitializer", NoHandle),
          Connection("LoopInitializer", "ContinueLoop", NoHandle),
          Connection("ContinueLoop", "ProcessIteration", "condition-continue"),
          Connection("ProcessIteration", "ContinueLoop", NoHandle),
          Connection("ContinueLoop", "FormatResults", "condition-exit")>>)

\* a condition block whose two conditions can hold together
OverlapWorkflow ==
    Workflow(
        [Starter |-> Block("starter", <<>>),
         Check |-> Block("condition",
             <<Condition("first", "input.a === true"),
               Condition("second", "input.b === true")>>),
         FirstHandler |-> Block("function", <<>>),
         SecondHandler |-> Block("function", <<>>)],
        <<Connection("Starter", "Check", NoHandle),
          Connection("Check", "FirstHandler", "condition-first"),
          Connection("Check", "SecondHandler", "condition-second")>>)

Workflows == [conditional |-> ConditionalWorkflow, loop |-> LoopWorkflow,
              overlap |-> OverlapWorkflow]

\* the inputs the workflows are executed with
FlowInputs ==
    [conditional |-> {[number |-> n] : n \in {Undef} \cup {Num(v) : v \in 0..MaxNumber}},
     loop |-> {[start |-> a, limit |-> b] :
                  a \in {Undef} \cup {Num(v) : v \in 0..MaxLimit},
                  b \in {Undef} \cup {Num(v) : v \in 0..MaxLimit}},
     overlap |-> {[a |-> x, b |-> y] : x \in BOOLEAN, y \in BOOLEAN}]

\* the value of a condition's expression on the block's input
Eval(expression, input) ==
    CASE expression = "input.isEven === true" -> input.isEven = TRUE
      [] expression = "input.isEven === false" -> input.isEven = FALSE
      [] expression = "input.counter < input.limit" -> input.counter < input.limit
      [] expression = "input.counter >= input.limit" -> input.counter >= input.limit
      [] expression = "input.a === true" -> input.a = TRUE
      [] expression = "input.b === true" -> input.b = TRUE

\* the code of the function blocks
InputProcessorCode(input) ==
    LET number == Or(input.number, Num(0)).v
    IN [number |-> number, isEven |-> number % 2 = 0]
EvenHandlerCode(input) == [number |-> input.number, result |-> "is even", path |-> "even"]
OddHandlerCode(input) == [number |-> input.number, result |-> "is odd", path |-> "odd"]
LoopInitializerCode(input) ==
    LET start == Or(input.start, Num(0)).v
        limit == Or(input.limit, Num(5)).v
    IN [counter |-> start, limit |-> limit, results |-> <<>>, shouldContinue |-> start < limit]
ProcessIterationNoIncrement(input) ==
    LET counter == input.counter
        squared == counter * counter
        results == Append(input.results, squared)
        newCounter == counter
    IN [counter |-> newCounter, limit |-> input.limit, results |-> results,
        shouldContinue |-> newCounter < input.limit]
ProcessIterationCode(input) ==
    LET counter == input.counter
        squared == counter * counter
        results == Append(input.results, squared)
        newCounter == counter + 1
    IN [counter |-> newCounter, limit |-> input.limit, results |-> results,
        shouldContinue |-> newCounter < input.limit]
FormatResultsCode(input) ==
    [finalCounter |-> input.counter, squaredValues |-> input.results,
     totalValues |-> Len(input.results)]
HandlerCode(name, input) == [a |-> input.a, b |-> input.b, path |-> name]

VARIABLES
    fwf,        \* the workflow being executed
    fstatus,    \* "idle", "running" or "done"
    ffrontier,  \* the ready blocks, each with its input, in scheduling order
    flogs,      \* the trace: per block invocation the block and its input
    fout        \* the output of the block invoked last

flowVars == <<fwf, fstatus, ffrontier, flogs, fout>>

Ready(block, input) == [block |-> block, input |-> input]

InitFlow ==
    /\ fwf = "none"
    /\ fstatus = "idle"
    /\ ffrontier = <<>>
    /\ flogs = <<>>
    /\ fout = [none |-> TRUE]

\* what a block yields on an input
RunBlock(wf, block, input) ==
    IF Workflows[wf].blocks[block].type # "function"
    THEN input
    ELSE CASE block = "InputProcessor" -> InputProcessorCode(input)
           [] block = "EvenHandler" -> EvenHandlerCode(input)
           [] block = "OddHandler" -> OddHandlerCode(input)
           [] block = "LoopInitializer" -> LoopInitializerCode(input)
           [] block = "ProcessIteration" -> ProcessIterationCode(input)
           [] block = "FormatResults" -> FormatResultsCode(input)
           [] OTHER -> HandlerCode(block, input)

\* the handles of the conditions that hold on the input, in declaration order
TrueHandles(conditions, input) ==
    LET holds == SelectSeq(conditions, LAMBDA c : Eval(c.expression, input))
    IN [k \in 1..Len(holds) |-> "condition-" \o holds[k].id]

SelectedHandlesAllMatches(conditions, input) == TrueHandles(conditions, input)

\* a condition block selects the handle of the first condition that holds,
\* and none when no condition holds
SelectedHandles(conditions, input) ==
    SliceFirst(TrueHandles(conditions, input), 1)

\* the blocks scheduled after a block: for a condition block the targets of
\* the connections of the selected handle, otherwise of all its connections
Successors(wf, block, input) ==
    LET b == Workflows[wf].blocks[block]
        handles == IF b.type = "condition"
                   THEN SelectedHandles(b.conditions, input)
                   ELSE <<NoHandle>>
        taken == SelectSeq(Workflows[wf].connections,
                           LAMBDA c : c.source = block /\ Includes(handles, c.sourceHandle))
    IN [k \in 1..Len(taken) |-> taken[k].target]

\* an execution starts at the starter block
FlowStart(wf, input) ==
    /\ fstatus \in {"idle", "done"}
    /\ fwf' = wf
    /\ fstatus' = "running"
    /\ ffrontier' = <<Ready("Starter", input)>>
    /\ flogs' = <<>>
    /\ fout' = [none |-> TRUE]

\* the first ready block is invoked and the blocks after it become ready
FlowStep ==
    /\ fstatus = "running"
    /\ ffrontier # <<>>
    /\ Len(flogs) < MaxSteps
    /\ LET r == Head(ffrontier)
           output == RunBlock(fwf, r.block, r.input)
           next == Successors(fwf, r.block, r.input)
       IN /\ flogs' = Append(flogs, r)
          /\ fout' = output
          /\ ffrontier' = Tail(ffrontier) \o [k \in 1..Len(next) |-> Ready(next[k], output)]
    /\ UNCHANGED <<fwf, fstatus>>

\* no block is ready: the execution is over and yields the last output
FlowEnd ==
    /\ fstatus = "running"
    /\ ffrontier = <<>>
    /\ fstatus' = "done"
    /\ UNCHANGED <<fwf, ffrontier, flogs, fout>>

(***************************************************************************)
(* Specifications.                                                         *)
(***************************************************************************)
vars == <<sdkVars, batchVars, pollVars, flowVars, answered, parked>>

\* the control bar for a signed-in user with an active workflow, no batch started
BatchAtRest == hasSession = TRUE /\ activeWorkflowId = TRUE /\ InitBatch
\* a webhook of a user, set to process incoming emails one poll at a time
DefaultConfig == Config(Str("user-1"), TRUE, FALSE, FALSE, <<>>, "INCLUDE")
\* the configurations that differ in what makes a task fail before it fetches
PlainConfigs ==
    {c \in InitialConfigs : ~c.markAsRead /\ ~c.singleEmailMode /\ c.labelIds = <<>>}
\* the polling service never called
PollAtRest == InitPoll({DefaultConfig}, {Webhooks})

Init == InitSdk /\ InitBatch /\ PollAtRest /\ InitFlow
\* one subscription: the webhook w1 in any configuration, active or not
InitPolling ==
    /\ InitSdk /\ BatchAtRest /\ InitFlow
    /\ InitPoll(InitialConfigs, {{}, {"w1"}}) /\ db["w2"] = DefaultConfig
\* one active subscription that has processed many messages before:
\* `n` ids are stored, the oldest first, all of them older than the mailbox's
Earlier(n) == [k \in 1..n |-> k - n]
InitTrimming ==
    /\ InitSdk /\ BatchAtRest /\ InitFlow
    /\ InitPoll({[DefaultConfig EXCEPT !.processedEmailIds = Earlier(n)] :
                     n \in {ProcessedIdsKept - 1, ProcessedIdsKept}}, {{"w1"}})
    /\ db["w2"] = db["w1"]
\* one active subscription, polled by requests that may overlap
InitOverlap == InitSdk /\ BatchAtRest /\ InitFlow /\ InitPoll({DefaultConfig}, {{"w1"}})
\* two subscriptions, both active
InitPollingMany == InitSdk /\ BatchAtRest /\ InitFlow /\ InitPoll(PlainConfigs, {Webhooks})
InitExecution == InitSdk /\ BatchAtRest /\ PollAtRest /\ InitFlow
\* the control bar of a signed-in user
InitUsage == InitSdk /\ BatchAtRest /\ PollAtRest /\ InitFlow

notSdk == <<batchVars, pollVars, flowVars, answered, parked>>
notBatch == <<sdkVars, pollVars, flowVars, answered, parked>>
notPoll == <<sdkVars, batchVars, flowVars, answered, parked>>
notFlow == <<sdkVars, batchVars, pollVars, answered, parked>>
\* the other components, for a step that records the answer of the usage endpoint
notUsage == <<sdkVars, pollVars, flowVars, parked>>
\* the other components, for a step that changes which call runs
notCalls == <<sdkVars, batchVars, flowVars, answered>>

NextSdk ==
    \/ \E id \in {Str(g) : g \in GivenIds} : Execute(id) /\ UNCHANGED notSdk
    \/ \E resp \in ExecResponses : ExecuteResponse(resp) /\ UNCHANGED notSdk
    \/ \E wfid \in WorkflowArgs : ExecuteWorkflow(wfid) /\ UNCHANGED notSdk
    \/ \E resp \in SaveResponses : ExecuteWorkflowSaveResponse(resp) /\ UNCHANGED notSdk
    \/ \E wfid \in WorkflowArgs : SaveWorkflowV1(wfid) /\ UNCHANGED notSdk
    \/ \E resp \in SaveResponses : SaveWorkflowV1Response(resp) /\ UNCHANGED notSdk
    \/ \E wfid \in WorkflowArgs : SaveWorkflowV2(wfid) /\ UNCHANGED notSdk
    \/ \E resp \in SaveResponses : SaveWorkflowV2Response(resp) /\ UNCHANGED notSdk
    \/ \E resp \in SaveResponses : GetWorkflowResponse(resp) /\ UNCHANGED notSdk
    \/ \E name \in ApiMethodNames, id \in {Str(g) : g \in GivenIds} :
           ApiCall(name, id) /\ UNCHANGED notSdk
    \/ \E resp \in SaveResponses : ApiResponse(resp) /\ UNCHANGED notSdk

NextBatch ==
    \/ HandleMultipleRuns /\ UNCHANGED notBatch
    \/ RunResolves /\ UNCHANGED notBatch
    \/ RunThrows /\ UNCHANGED notBatch
    \/ \E r \in UsageVals \cup {NoData} : UsageResponse(r) /\ UNCHANGED notBatch
    \/ CancelClick /\ UNCHANGED notBatch
    \/ \E count \in RunCounts : SetRunCount(count) /\ UNCHANGED notBatch
    \/ HideProgress /\ UNCHANGED notBatch
    \/ Tick /\ UNCHANGED notBatch
    \/ UsageEffect /\ UNCHANGED notBatch
    \/ \E r \in UsageVals \cup {NoData} : UsageEffectResponse(r) /\ UNCHANGED notBatch
    \/ \E ok \in BOOLEAN : StatsResponse(ok) /\ UNCHANGED notBatch

\* the handler and the clicks: the batches, their runs and usage checks, the
\* cancel button and the run-count dropdown, at one time of the clock and
\* without the effect
NextRuns ==
    \/ HandleMultipleRuns /\ UNCHANGED notBatch
    \/ RunResolves /\ UNCHANGED notBatch
    \/ RunThrows /\ UNCHANGED notBatch
    \/ \E r \in UsageVals \cup {NoData} : UsageResponse(r) /\ UNCHANGED notBatch
    \/ CancelClick /\ UNCHANGED notBatch
    \/ \E count \in RunCounts : SetRunCount(count) /\ UNCHANGED notBatch
    \/ HideProgress /\ UNCHANGED notBatch

\* the usage check: the batches of a signed-in user that are neither
\* cancelled nor fail, the effect, and the record of what the endpoint answers
NextUsage ==
    \/ HandleMultipleRuns /\ UNCHANGED notBatch
    \/ RunResolves /\ UNCHANGED notBatch
    \/ \E r \in UsageVals \cup {NoData} :
           UsageResponse(r) /\ answered' = r /\ UNCHANGED notUsage
    \/ \E count \in RunCounts : SetRunCount(count) /\ UNCHANGED notBatch
    \/ HideProgress /\ UNCHANGED notBatch
    \/ Tick /\ UNCHANGED notBatch
    \/ UsageEffect /\ UNCHANGED notBatch
    \/ \E r \in UsageVals \cup {NoData} :
           UsageEffectResponse(r) /\ answered' = r /\ UNCHANGED notUsage

\* the steps of the polling service over mailboxes that hold `mailbox`
NextPollOver(mailbox) ==
    \/ \E selectFails \in BOOLEAN : PollGmailWebhooks(selectFails) /\ UNCHANGED notPoll
    \/ \E w \in Webhooks, tok \in TokenOutcomes :
           GetOAuthTokenResponse(w, tok) /\ UNCHANGED notPoll
    \/ \E w \in Webhooks : \E a \in FetchAnswers(snapshot[w], mailbox) :
           FetchNewEmailsReturns(w, a[1], a[2]) /\ UNCHANGED notPoll
    \/ \E w \in Webhooks, outcome \in {"ok", "notok", "throw"}, markFails \in BOOLEAN :
           TriggerResponse(w, outcome, markFails) /\ UNCHANGED notPoll
    \/ \E w \in Webhooks, fails \in BOOLEAN :
           UpdateWebhookLastChecked(w, fails) /\ UNCHANGED notPoll
    \/ \E w \in Webhooks, fails \in BOOLEAN : UpdateWebhookData(w, fails) /\ UNCHANGED notPoll
    \/ AllSettled /\ UNCHANGED notPoll

NextPoll == NextPollOver(MessageIds)
\* each mailbox holds one message
NextPollMany == NextPollOver({CHOOSE m \in MessageIds : TRUE})

\* the polling service called by requests that may overlap
NextOverlap ==
    \/ NextPoll
    \/ Switch /\ UNCHANGED notCalls

NextFlow ==
    \/ \E wf \in DOMAIN Workflows : \E input \in FlowInputs[wf] :
           FlowStart(wf, input) /\ UNCHANGED notFlow
    \/ FlowStep /\ UNCHANGED notFlow
    \/ FlowEnd /\ UNCHANGED notFlow

SpecSdk == Init /\ [][NextSdk]_vars
SpecBatch == Init /\ [][NextBatch]_vars
SpecUsage == InitUsage /\ [][NextUsage]_vars
SpecRuns == Init /\ [][NextRuns]_vars
\* a run in flight resolves or rejects, and a usage request is answered or fails
FairSpecRuns ==
    /\ SpecRuns
    /\ WF_vars((RunResolves \/ RunThrows) /\ UNCHANGED notBatch)
    /\ WF_vars((\E r \in UsageVals \cup {NoData} : UsageResponse(r)) /\ UNCHANGED notBatch)
SpecPoll == InitPolling /\ [][NextPoll]_vars
SpecPollMany == InitPollingMany /\ [][NextPollMany]_vars
SpecTrimming == InitTrimming /\ [][NextPoll]_vars
SpecOverlap == InitOverlap /\ [][NextOverlap]_vars
SpecFlow == InitExecution /\ [][NextFlow]_vars
\* an execution in progress is not left waiting
FairSpecFlow == SpecFlow /\ WF_vars(FlowStep /\ UNCHANGED notFlow) /\ WF_vars(FlowEnd /\ UNCHANGED notFlow)

(***************************************************************************)
(* Properties of the SDK (checked under SpecSdk).                          *)
(***************************************************************************)
IsSave(r) == r.url = SaveUrl
IsExecute(r) == Len(r.url) = 3 /\ r.url[3] = "/execute"
Count(reqs, P(_)) == Cardinality({k \in 1..Len(reqs) : P(reqs[k])})
InExecuteWorkflow == xop = "executeWorkflow"
\* the call is over and its last request, an execute request, was answered
ExecuteAnswered ==
    /\ xpc = "done"
    /\ Len(xresps) = Len(xreqs)
    /\ IsExecute(xreqs[Len(xreqs)])
ExecuteAnswer == xresps[Len(xresps)]
\* the save request of executeWorkflow was answered non-2xx
SaveRefused ==
    /\ InExecuteWorkflow
    /\ Len(xresps) >= 1
    /\ xresps[1].kind = "http"
    /\ ~xresps[1].ok

\* C1 as stated: every call of executeWorkflow that is over has issued exactly
\* one save request and exactly one execute request.
C1_ExactlyOneSaveAndOneExecute ==
    (InExecuteWorkflow /\ xpc = "done") =>
        /\ Count(xreqs, IsSave) = 1
        /\ Count(xreqs, IsExecute) = 1

\* C1 amended: executeWorkflow issues exactly one save request, first; an
\* execute request is sent only after the save request was answered 2xx, and
\* then exactly one is sent; a call whose save was answered 2xx has issued
\* exactly one execute request when it is over.
C1_SaveThenExecute ==
    InExecuteWorkflow =>
        /\ Count(xreqs, IsSave) = 1
        /\ IsSave(xreqs[1])
        /\ Count(xreqs, IsExecute) <= 1
        /\ Count(xreqs, IsExecute) = 1 =>
              /\ IsExecute(xreqs[2])
              /\ Len(xresps) >= 1
              /\ xresps[1].kind = "http" /\ xresps[1].ok
        /\ (xpc = "done" /\ xresps[1].kind = "http" /\ xresps[1].ok) =>
              Count(xreqs, IsExecute) = 1

C1_Witness ==
    /\ InExecuteWorkflow
    /\ xpc = "done"
    /\ xout.kind = "return"
    /\ Len(xreqs) = 2

\* C2: when the save request of executeWorkflow is answered non-2xx, the call
\* throws, the message of the error contains the error text of the body (its
\* `error`, else its `message`), and no execute request is sent.
C2_SaveFailureThrows ==
    SaveRefused =>
        /\ xpc = "done"
        /\ xout.kind = "throw"
        /\ Count(xreqs, IsExecute) = 0
        /\ LET text == Or(Get(xresps[1].body, "error"), Get(xresps[1].body, "message"))
           IN Truthy(text) => Contains(xout.error.message, text.v)

C2_Witness ==
    /\ SaveRefused
    /\ xresps[1].status = 400
    /\ Get(xresps[1].body, "error") = Str(ServerErrorText)
    /\ xout.kind = "throw"

\* the execute endpoint answered non-2xx with a JSON body that has an
\* `output` field
PartialFailureAnswered ==
    /\ ExecuteAnswered
    /\ ExecuteAnswer.kind = "http"
    /\ ~ExecuteAnswer.ok
    /\ ExecuteAnswer.body.t = "object"
    /\ ExecuteAnswer.body.output # Undef

\* C3 as stated: a non-2xx answer whose body has an `output` field makes
\* execute return a result with success=false that carries the output of
\* the body, and its error and logs when it has them.
C3_CarriesBodyOutput ==
    PartialFailureAnswered =>
        /\ xout.kind = "return"
        /\ xout.value.success = Bool(FALSE)
        /\ xout.value.output = ExecuteAnswer.body.output
        /\ ExecuteAnswer.body.error # Undef => xout.value.error = ExecuteAnswer.body.error
        /\ ExecuteAnswer.body.logs # Undef => xout.value.logs = ExecuteAnswer.body.logs

\* C3 amended: such an answer makes execute return (not throw) a result with
\* success=false whose output is the output of the body, or { response: {} }
\* when that output is null (falsy), whose error is the error of the body, or
\* 'Execution failed' without one, and whose logs are the logs of the body,
\* or [] without them.
C3_PartialFailureReturned ==
    PartialFailureAnswered =>
        /\ xout.kind = "return"
        /\ xout.value.success = Bool(FALSE)
        /\ xout.value.output = IF Truthy(ExecuteAnswer.body.output)
                               THEN ExecuteAnswer.body.output
                               ELSE DefaultOutput
        /\ xout.value.error = IF ExecuteAnswer.body.error # Undef
                              THEN ExecuteAnswer.body.error
                              ELSE Str("Execution failed")
        /\ xout.value.logs = IF ExecuteAnswer.body.logs # Undef
                             THEN ExecuteAnswer.body.logs
                             ELSE Arr(<<>>)

C3_Witness ==
    /\ PartialFailureAnswered
    /\ ExecuteAnswer.body.output = OutputOf("r1")
    /\ ExecuteAnswer.body.logs = Arr(<<"log1">>)
    /\ xout.kind = "return"

\* C4: a non-2xx answer of the execute endpoint whose body has no `output`
\* field makes execute throw an error that carries the status and, for a
\* JSON body, the body; no result is returned.
C4_ApiErrorCarriesStatusAndBody ==
    (/\ ExecuteAnswered
     /\ ExecuteAnswer.kind = "http"
     /\ ~ExecuteAnswer.ok
     /\ Get(ExecuteAnswer.body, "output") = Undef) =>
        /\ xout.kind = "throw"
        /\ xout.error.status = Num(ExecuteAnswer.status)
        /\ ~JsonFails(ExecuteAnswer) => xout.error.apiResponse = ExecuteAnswer.body

\* C5: saveWorkflow sends PUT /api/workflow/{id} for a workflow that has an
\* id, and sends a POST only for a workflow without id.
C5_SaveUpdatesInPlace ==
    (xop \in {"saveWorkflowV1", "saveWorkflowV2"}) =>
        /\ Truthy(xarg) => (xreqs[1].method = "PUT" /\ xreqs[1].url = WorkflowUrl(xarg))
        /\ xreqs[1].method = "POST" => ~Truthy(xarg)

\* C6: for a workflow without id, executeWorkflow addresses the execute
\* request to the id of the workflow in the answer to the save request.
C6_ExecutesSavedId ==
    (/\ InExecuteWorkflow
     /\ ~Truthy(xarg)
     /\ Count(xreqs, IsExecute) = 1
     /\ Get(xresps[1].body, "workflow") # Undef) =>
        xreqs[2].url = ExecuteUrl(xresps[1].body.workflow.id)

(***************************************************************************)
(* Properties of the SimStudio methods (checked under SpecSdk).            *)
(***************************************************************************)
ApiAnsweredNonOk ==
    /\ xpc = "done"
    /\ xop \in ApiMethodNames
    /\ xresps[1].kind = "http"
    /\ ~xresps[1].ok

\* C16: a SimStudio method whose request is answered non-2xx rejects with an
\* error that carries the HTTP status; it never resolves
C16_NonOkRejectsWithStatus ==
    ApiAnsweredNonOk =>
        /\ xout.kind = "throw"
        /\ xout.error.status = Num(xresps[1].status)

(***************************************************************************)
(* Properties of the polling service (checked under SpecPoll, and under    *)
(* SpecPollMany for what concerns several subscriptions).                  *)
(***************************************************************************)
\* the ids a task has sent to the trigger endpoint in this tick
Posted(w) ==
    LET t == task[w]
    IN {t.emails[k] : k \in 1..(IF t.pc = "deliver" THEN t.k ELSE Len(t.emails))}

\* C11: an id that is in the processed ids of the subscription when the tick
\* starts is not sent to the trigger endpoint in that tick
C11_ProcessedIdNotDelivered ==
    \A w \in Webhooks : \A m \in Posted(w) : ~Includes(snapshot[w].processedEmailIds, m)

\* a tick in which the query returned a processed id together with a new
\* one, and the new one has been sent
C11_Witness ==
    \E w \in Webhooks :
        /\ task[w].pc = "update"
        /\ task[w].found > task[w].fresh
        /\ snapshot[w].processedEmailIds # <<>>
        /\ Posted(w) # {}

\* C12: over the ticks of a subscription, the trigger endpoint accepts each
\* message id at most once
C12_DeliveredAtMostOnce ==
    \A w \in Webhooks : \A m \in MessageIds : accepted[w][m] <= 1

(***************************************************************************)
(* Several subscriptions (checked under SpecPollMany).                     *)
(***************************************************************************)
\* a call that has read its active webhooks is over
PolledAll == ppc = "done" /\ dbActive # {} /\ \A w \in dbActive : task[w].pc # "none"

\* C13: a call that has started its tasks stays pending until every task has
\* returned, whatever fails in a task; it then returns one entry per active
\* webhook, the entry of a webhook being that webhook's own result, and the
\* failed count being the number of webhooks whose own task failed
C13_FailureIsolated ==
    /\ ppc = "polling" => pollOut = Pending
    /\ PolledAll =>
           /\ pollOut.kind = "return"
           /\ pollOut.value.total = Cardinality(dbActive)
           /\ \A w \in dbActive :
                  /\ task[w].pc = "done"
                  /\ pollOut.value.details[w] = task[w].result
                  /\ pollOut.value.details[w].webhookId = w
           /\ pollOut.value.failed =
                  Cardinality({w \in dbActive : ~task[w].result.success})
           /\ pollOut.value.successful + pollOut.value.failed = pollOut.value.total

\* a call over two subscriptions of which one failed to get its token and
\* the other delivered an email
C13_Witness ==
    /\ PolledAll
    /\ pollOut.kind = "return"
    /\ \E w1, w2 \in dbActive :
           /\ pollOut.value.details[w1] = Failure(w1, <<"token refresh failed">>)
           /\ pollOut.value.details[w2].success
           /\ task[w2].count > 0

(***************************************************************************)
(* Properties of the execution of a workflow (checked under SpecFlow, and  *)
(* under FairSpecFlow for termination).                                    *)
(***************************************************************************)
\* the block a handle of a condition block leads to
TargetOf(wf, block, handle) ==
    LET c == CHOOSE c \in {Workflows[wf].connections[k] :
                              k \in 1..Len(Workflows[wf].connections)} :
                 c.source = block /\ c.sourceHandle = handle
    IN c.target

\* the k-th invocation is of a condition block whose first condition holds
FirstConditionHolds(k) ==
    LET b == Workflows[fwf].blocks[flogs[k].block]
    IN b.type = "condition" /\ Eval(b.conditions[1].expression, flogs[k].input)

\* C14: after a condition block whose first condition A holds, the block
\* invoked next is the target of A's handle and no other block of the
\* condition block is scheduled, whatever the second condition yields; at
\* most one branch is taken
C14_FirstTrueConditionWins ==
    /\ Len(ffrontier) <= 1
    /\ \A k \in 1..Len(flogs) :
           FirstConditionHolds(k) =>
               LET b == Workflows[fwf].blocks[flogs[k].block]
                   target == TargetOf(fwf, flogs[k].block,
                                      "condition-" \o b.conditions[1].id)
               IN IF k < Len(flogs)
                  THEN flogs[k + 1].block = target
                  ELSE Len(ffrontier) = 1 /\ ffrontier[1].block = target

\* both conditions held, and the branch of the first was taken
C14_Witness ==
    /\ fwf = "overlap"
    /\ fstatus = "done"
    /\ flogs[2].block = "Check"
    /\ flogs[2].input.a /\ flogs[2].input.b
    /\ Len(flogs) = 3
    /\ flogs[3].block = "FirstHandler"

ProcessInvocations ==
    Cardinality({k \in 1..Len(flogs) : flogs[k].block = "ProcessIteration"})
\* the loop workflow executed with start 0 and limit 5
LoopFromZeroToFive ==
    /\ fwf = "loop"
    /\ IF flogs = <<>>
       THEN ffrontier # <<>> /\ ffrontier[1].input = [start |-> Num(0), limit |-> Num(5)]
       ELSE flogs[1].input = [start |-> Num(0), limit |-> Num(5)]
LoopResult ==
    /\ fstatus = "done"
    /\ LoopFromZeroToFive
    /\ ProcessInvocations = 5
    /\ "finalCounter" \in DOMAIN fout
    /\ fout.finalCounter = 5

\* C15: the loop workflow started with counter 0 and limit 5 terminates,
\* having invoked the processing block exactly 5 times, with finalCounter 5
C15_LoopTerminates ==
    [](fstatus = "running" /\ LoopFromZeroToFive => <>LoopResult)

C15_Witness == LoopResult /\ Len(fout.squaredValues) = 5

(***************************************************************************)
(* Properties of the multi-run controller (checked under SpecBatch).       *)
(***************************************************************************)
Has(notes, n) == \E k \in 1..Len(notes) : notes[k] = n
IsQuotaNote(n) == n.text = QuotaNote(0).text
IsCompletedNote(n) == n.text = CompletedNote(0).text
\* a terminal report: Cancelled, QuotaExceeded-stopped or Completed
IsTerminalReport(n) == n = CancelledNote \/ IsQuotaNote(n) \/ IsCompletedNote(n)
\* a batch was started and its handler is over
BatchOver == batches > 0 /\ bpc = "idle"
\* cancellation was requested after run k and before run k + 1, k < N
CancelledBetweenRuns == cancelledAfter >= 0 /\ cancelledAfter < batchRuns

\* C7 as stated: when cancellation is requested after run k has finished and
\* before run k+1 starts, run k+1 never starts, the completed count is k and
\* the batch reports Cancelled.
C7_CancelBetweenRunsReportsCancelled ==
    CancelledBetweenRuns =>
        /\ runsStarted = cancelledAfter
        /\ completedRuns = cancelledAfter
        /\ BatchOver => Has(notifications, CancelledNote)

\* C7 amended: in that case run k+1 never starts and the completed count is
\* k; the batch reports Cancelled (and nothing else), unless the usage check
\* that follows run k observes the quota exceeded: then the batch is stopped
\* by that check, reports the usage limit after k runs and no cancellation.
C7_CancelBetweenRuns ==
    CancelledBetweenRuns =>
        /\ runsStarted = cancelledAfter
        /\ completedRuns = cancelledAfter
        /\ BatchOver =>
              IF quotaObserved = cancelledAfter
              THEN /\ Has(notifications, QuotaNote(cancelledAfter))
                   /\ ~Has(notifications, CancelledNote)
              ELSE notifications = <<CancelledNote>>

C7_Witness ==
    /\ BatchOver
    /\ batchRuns = 10
    /\ cancelledAfter = 5
    /\ completedRuns = 5
    /\ notifications = <<CancelledNote>>

\* C8: a batch of more than one run that ends without a run error has added
\* exactly one terminal report (Cancelled, QuotaExceeded-stopped, Completed).
C8_ExactlyOneTerminalReport ==
    (BatchOver /\ batchRuns > 1 /\ ~Has(notifications, FailedNote)) =>
        Count(notifications, IsTerminalReport) = 1

\* C9: during a batch and at its terminal event (cancel, quota stop,
\* completion or run error) the completed-runs counter equals the number of
\* runs of the batch that have finished.
C9_CompletedCountsFinishedRuns ==
    batches > 0 => completedRuns = runsFinished

C9_Witness ==
    /\ BatchOver
    /\ batchRuns = 5
    /\ runsFinished = 2
    /\ completedRuns = 2
    /\ notifications = <<FailedNote>>

\* C10: once a usage check of the batch has observed the quota exceeded, no
\* further run of the batch starts: the handler is over, the runs started are
\* those started before the check, and all of them are finished and counted.
C10_NoRunAfterQuotaExceeded ==
    quotaObserved # -1 =>
        /\ bpc = "idle"
        /\ runsStarted = quotaObserved
        /\ runsFinished = runsStarted
        /\ completedRuns = runsFinished

C10_Witness ==
    /\ quotaObserved = 5
    /\ batchRuns = 10
    /\ completedRuns = 5
    /\ Has(notifications, QuotaNote(5))

\* the loop checks the usage after run k of a batch of n runs
DueAfter(k, n) == k = 1 \/ k % 5 = 0 \/ k = n
\* the loop has checked the usage after run k
CheckedAfter(k) == \E j \in 1..Len(checks) : checks[j].after = k

\* C17 as stated: in a batch of a signed-in user the first quota check is
\* made before the 1st run starts and forces a refresh; every later check
\* follows a 5th run or the final run and forces none, and each of these
\* runs is followed by a check.
C17_CheckBeforeFirstRun ==
    (batches > 0 /\ hasSession) =>
        /\ Len(checks) > 0
        /\ checks[1].started = 0
        /\ checks[1].forced
        /\ \A j \in 2..Len(checks) :
              /\ ~checks[j].forced
              /\ checks[j].after % 5 = 0 \/ checks[j].after = batchRuns
        /\ \A k \in 1..runsFinished : (k % 5 = 0 \/ k = batchRuns) => CheckedAfter(k)

\* C17 amended: the loop of a batch checks the quota after the 1st run,
\* after every 5th run and after the final run, when the user is signed in,
\* and after no other run and never before the 1st run; each check is made
\* before the next run starts, and only the check after the 1st run forces
\* a refresh.
C17_CheckCadence ==
    batches > 0 =>
        /\ \A k \in 1..runsFinished :
              CheckedAfter(k) <=> (hasSession /\ DueAfter(k, batchRuns))
        /\ \A j \in 1..Len(checks) :
              /\ checks[j].after \in 1..runsFinished
              /\ checks[j].started = checks[j].after
              /\ checks[j].forced <=> (checks[j].after = 1)
              /\ \A h \in 1..(j - 1) : checks[h].after < checks[j].after

C17_Witness ==
    /\ BatchOver
    /\ batchRuns = 10
    /\ runsFinished = 10
    /\ checks = <<Check(1, 1, TRUE), Check(5, 5, FALSE), Check(10, 10, FALSE)>>

\* C18: a run of a batch starts only when every run started before it has
\* finished, and a batch starts only when no batch is active: while the
\* handler of a batch is at work isMultiRunning is set, which makes a
\* further call of handleMultipleRuns return at once.
C18_OneExecutionInFlight ==
    /\ [](bpc # "idle" => isMultiRunning)
    /\ [](runsStarted - runsFinished \in {0, 1})
    /\ [][/\ batches' # batches => (bpc = "idle" /\ runsStarted' = 1 /\ runsFinished' = 0)
          /\ (batches' = batches /\ runsStarted' # runsStarted) =>
                 (runsStarted' = runsStarted + 1 /\ runsFinished' = runsStarted)]_vars

C18_Witness ==
    /\ batches = 2
    /\ isMultiRunning
    /\ bpc = "running"
    /\ runsStarted = 2
    /\ runsFinished = 1

\* the cache holds a snapshot younger than 60 s
CacheFresh ==
    /\ usageDataCache.data # NoData
    /\ now - usageDataCache.timestamp < expirationMs
\* the step calls checkUserUsage from the loop, or from the effect
LoopChecks == Len(checks') = Len(checks) + 1
EffectChecks == hasSession /\ effectPending /\ ~effectPending'
\* the step delivers the answer of the usage endpoint to the loop's check,
\* or to the effect's
LoopAnswered == bpc = "checking" /\ bpc' # "checking"
EffectAnswered == effectFetch # -1 /\ effectFetch' = -1

\* C19: a call of checkUserUsage that is not forced and finds a snapshot
\* younger than 60 s yields that snapshot and sends no request, and leaves
\* the cache as it is; every other call sends the request; an answer with
\* usage data replaces the snapshot and sets its timestamp to the time of
\* the call, a failed request leaves the cache as it is.
C19_CacheOrEndpoint ==
    [][/\ LoopChecks =>
              IF ~checks'[Len(checks')].forced /\ CacheFresh
              THEN /\ bpc' # "checking"
                   /\ usageDataCache' = usageDataCache
                   /\ IsExceeded(usageDataCache.data) => usageExceeded'
              ELSE /\ bpc' = "checking"
                   /\ checkNow' = now
                   /\ usageDataCache' = usageDataCache
       /\ EffectChecks =>
              IF CacheFresh
              THEN /\ effectFetch' = -1
                   /\ usageDataCache' = usageDataCache
                   /\ usageExceeded' = usageDataCache.data.isExceeded
              ELSE effectFetch' = now
       /\ LoopAnswered =>
              usageDataCache' = IF answered' # NoData
                                THEN [data |-> answered', timestamp |-> checkNow]
                                ELSE usageDataCache
       /\ EffectAnswered =>
              usageDataCache' = IF answered' # NoData
                                THEN [data |-> answered', timestamp |-> effectFetch]
                                ELSE usageDataCache]_vars

\* the loop's second check, not forced, was made while the snapshot of time
\* 0 is younger than 60 s, and the loop goes on with that snapshot
C19_Witness ==
    /\ Len(checks) = 2
    /\ ~checks[2].forced
    /\ bpc = "running"
    /\ runsStarted = 6
    /\ now = ClockStep
    /\ answered = Usage(FALSE)
    /\ usageDataCache = [data |-> Usage(FALSE), timestamp |-> 0]

\* the batch has run all its runs and was neither cancelled nor failed
NormalCompletion ==
    /\ BatchOver
    /\ runsFinished = batchRuns
    /\ ~Has(notifications, CancelledNote)
    /\ ~Has(notifications, FailedNote)
    /\ ~\E k \in 1..Len(notifications) : IsQuotaNote(notifications[k])

\* C20: a batch sends at most one stats request, and only when it has
\* completed normally, never when it was cancelled; the step in which the
\* request is answered or fails changes neither the notifications of the
\* batch nor the completed count.
C20_StatsOnlyOnNormalCompletion ==
    /\ [](batches > 0 =>
              /\ Len(statsCalls) <= 1
              /\ statsCalls # <<>> => NormalCompletion
              /\ Has(notifications, CancelledNote) => statsCalls = <<>>)
    /\ [][(statsPending /\ ~statsPending' /\ batches' = batches) =>
              (notifications' = notifications /\ completedRuns' = completedRuns)]_vars

(***************************************************************************)
(* The payload of a save to /api/db/workflow (checked under SpecSdk).      *)
(***************************************************************************)
\* C30: in every request to /api/db/workflow the key of the workflow entry
\* is the `id` field of the entry, and the requests that follow it in the
\* call (the fetch or the execution of the workflow) are addressed to that id
C30_PayloadKeyIsEntryId ==
    \A k \in 1..Len(xreqs) :
        xreqs[k].url = SaveUrl =>
            /\ xreqs[k].key = xreqs[k].entryId
            /\ \A j \in (k + 1)..Len(xreqs) :
                   xreqs[j].url \in {WorkflowUrl(xreqs[k].entryId),
                                     ExecuteUrl(xreqs[k].entryId)}

(***************************************************************************)
(* The end of a batch (checked under SpecBatch, its termination under      *)
(* FairSpecRuns, a failed usage request under SpecUsage).                  *)
(***************************************************************************)
\* C27: the number in the 'Completed N workflow runs' notification of a
\* batch is the number of runs executed in that batch
C27_CompletedNoteCountsBatchRuns ==
    BatchOver =>
        \A k \in 1..Len(notifications) :
            IsCompletedNote(notifications[k]) => notifications[k].n = runsFinished

\* C28: a batch in progress returns to idle; whenever the handler is idle
\* the running flag, the cancelling flag and the cancel flag are cleared; a
\* batch starts with them cleared, and within a batch the cancel flag is set
\* only by a click on cancel during that batch
C28_BatchReturnsToIdle ==
    /\ [](bpc = "idle" => (~isMultiRunning /\ ~isCancelling /\ ~cancelFlagRef))
    /\ [][/\ batches' # batches => (~isCancelling' /\ ~cancelFlagRef' /\ isMultiRunning')
          /\ (cancelFlagRef' /\ ~cancelFlagRef) =>
                 (batches' = batches /\ bpc \in {"running", "checking"} /\ isCancelling')
          /\ (Has(notifications', CancelledNote) /\ ~Has(notifications, CancelledNote)) =>
                 (batches' = batches /\ cancelFlagRef)]_vars
    /\ (bpc # "idle") ~> (bpc = "idle")

\* a second batch that ran to its end after the first one was cancelled
C28_Witness ==
    /\ BatchOver
    /\ batches = 2
    /\ batchRuns = 5
    /\ runsFinished = 5
    /\ ~Has(notifications, CancelledNote)
    /\ ~isMultiRunning /\ ~isCancelling /\ ~cancelFlagRef

\* C29: when the request of a usage check of the loop fails, the cache and
\* the usageExceeded state stay as they are, no usage-limit notification is
\* added, and the next run starts when runs remain and no cancellation was
\* requested; a failed request of the effect leaves the cache and the state
\* as well
C29_FailedCheckFailsOpen ==
    [][/\ (LoopAnswered /\ answered' = NoData) =>
              /\ usageDataCache' = usageDataCache
              /\ usageExceeded' = usageExceeded
              /\ Count(notifications', IsQuotaNote) = Count(notifications, IsQuotaNote)
              /\ (i < runCount - 1 /\ ~cancelFlagRef) =>
                     (bpc' = "running" /\ i' = i + 1 /\ runsStarted' = runsStarted + 1)
              /\ i = runCount - 1 => (bpc' = "idle" /\ ~Has(notifications', FailedNote))
       /\ (EffectAnswered /\ answered' = NoData) =>
              (usageDataCache' = usageDataCache /\ usageExceeded' = usageExceeded)]_vars

\* the request of the check after the first run has failed, as every
\* request before it, and the second run is in flight
C29_Witness ==
    /\ batches = 1
    /\ batchRuns = 5
    /\ bpc = "running"
    /\ runsStarted = 2
    /\ Len(checks) = 1
    /\ answered = NoData
    /\ usageDataCache.data = NoData
    /\ ~usageExceeded

(***************************************************************************)
(* The processed ids, the deliveries of a tick and the queries of a tick   *)
(* (checked under SpecPoll; the trimming under SpecTrimming, overlapping   *)
(* requests under SpecOverlap).                                            *)
(***************************************************************************)
\* C21: a subscription never has more than 100 processed ids stored, and a
\* tick that stores ids stores the ids stored before followed by the ids of
\* the tick, without the oldest of them (the first) when these are more
\* than 100
C21_ProcessedIdsTrimmed ==
    /\ [](\A w \in Webhooks : Len(db[w].processedEmailIds) <= ProcessedIdsKept)
    /\ [][\A w \in Webhooks :
              db'[w].processedEmailIds # db[w].processedEmailIds =>
                  LET all == db[w].processedEmailIds \o task[w].emails
                      over == IF Len(all) > ProcessedIdsKept
                              THEN Len(all) - ProcessedIdsKept
                              ELSE 0
                  IN db'[w].processedEmailIds = SubSeq(all, over + 1, Len(all))]_vars

\* a tick that delivered a message when 100 ids were stored: the id of the
\* message is stored last and the oldest id is no longer stored
C21_Witness ==
    \E w \in Webhooks :
        /\ task[w].pc = "done"
        /\ task[w].emails # <<>>
        /\ Len(snapshot[w].processedEmailIds) = ProcessedIdsKept
        /\ Len(db[w].processedEmailIds) = ProcessedIdsKept
        /\ db[w].processedEmailIds[ProcessedIdsKept] \in MessageIds
        /\ ~Includes(db[w].processedEmailIds, snapshot[w].processedEmailIds[1])
        /\ Includes(db[w].processedEmailIds, snapshot[w].processedEmailIds[ProcessedIdsKept])

\* C22: whatever the trigger endpoint answers for an item (2xx, non-2xx or
\* a thrown error), the answer counts one attempt for that item and for no
\* other, the next item of the tick is sent, or processEmails returns after
\* the last; the processed count grows by at most one and only with a 2xx
\* answer.  When processEmails has returned every item of the tick has been
\* attempted and the count is at most the number of items.
C22_EveryItemAttempted ==
    /\ [](\A w \in Webhooks :
              LET t == task[w]
              IN /\ t.pc = "deliver" => t.k \in 1..Len(t.emails)
                 /\ t.count <= Len(t.emails)
                 /\ \A j, k \in 1..Len(t.emails) : t.emails[j] = t.emails[k] => j = k
                 /\ t.pc = "update" => \A k \in 1..Len(t.emails) : attempted[w][t.emails[k]] = 1)
    /\ [][\A w \in Webhooks :
              (task[w].pc = "deliver" /\ task'[w] # task[w]) =>
                  LET t == task[w]
                  IN /\ task'[w].emails = t.emails
                     /\ attempted' = [attempted EXCEPT ![w][t.emails[t.k]] = @ + 1]
                     /\ IF t.k < Len(t.emails)
                        THEN task'[w].pc = "deliver" /\ task'[w].k = t.k + 1
                        ELSE task'[w].pc = "update"
                     /\ task'[w].count \in {t.count, t.count + 1}
                     /\ task'[w].count > t.count =>
                            accepted'[w][t.emails[t.k]] = accepted[w][t.emails[t.k]] + 1]_vars

\* a tick of two items: the delivery of the first failed, the second was
\* delivered and is the only one counted
C22_Witness ==
    \E w \in Webhooks :
        LET t == task[w]
        IN /\ t.pc = "update"
           /\ Len(t.emails) = 2
           /\ t.count = 1
           /\ attempted[w][t.emails[1]] = 1 /\ accepted[w][t.emails[1]] = 0
           /\ attempted[w][t.emails[2]] = 1 /\ accepted[w][t.emails[2]] = 1

\* C23: when a call is over, every item for which the call attempted a
\* delivery is among the stored processed ids of its subscription; and a
\* call attempts no item that was among the stored processed ids when it
\* started
C23_AttemptedIsPersisted ==
    /\ ppc = "done" =>
           \A w \in Webhooks : \A m \in MessageIds :
               attempted[w][m] > 0 => Includes(db[w].processedEmailIds, m)
    /\ \A w \in Webhooks : \A m \in MessageIds :
           attempted[w][m] > 0 => ~Includes(snapshot[w].processedEmailIds, m)

\* the task has got what fetchNewEmails returned
Fetched0(t) == t.asked # NoTask.asked

\* C24: a tick sends the history query exactly when a historyId is stored,
\* and the search query exactly when none is stored or the history query was
\* refused; when the history query was refused and the search lists
\* messages, these are the emails of the tick and the task goes on
C24_HistoryOrSearch ==
    \A w \in Webhooks :
        LET t == task[w]
            stored == Truthy(snapshot[w].historyId)
        IN Fetched0(t) =>
               /\ t.asked.history # "none" <=> stored
               /\ t.asked.search # "none" <=> (~stored \/ t.asked.history = "notok")
               /\ (t.asked.history = "notok" /\ t.asked.search = "ok" /\ t.listed # {}) =>
                      t.found = (IF snapshot[w].singleEmailMode THEN 1 ELSE Cardinality(t.listed))
               /\ t.asked.history = "notok" => t.pc \in {"checked", "deliver", "update"}

\* a tick whose history query was refused and that delivers what the search
\* listed
C24_Witness ==
    \E w \in Webhooks :
        /\ Truthy(snapshot[w].historyId)
        /\ task[w].asked = [history |-> "notok", search |-> "ok"]
        /\ task[w].pc = "deliver"
        /\ task[w].emails # <<>>

\* the greatest of a set of ids: the most recent message
Latest(ids) == CHOOSE m \in ids : \A n \in ids : n <= m

\* C25: in single-item mode a tick whose query was answered has at most one
\* item, and when the query listed ids that are not among the processed ids,
\* the item of the tick is the most recent of these
C25_SingleItemMostRecentUnprocessed ==
    \A w \in Webhooks :
        LET t == task[w]
            unprocessed == {m \in t.listed : ~Includes(snapshot[w].processedEmailIds, m)}
        IN (/\ snapshot[w].singleEmailMode
            /\ Fetched0(t)
            /\ "ok" \in {t.asked.history, t.asked.search}) =>
               /\ Len(t.emails) <= 1
               /\ unprocessed # {} => t.emails = <<Latest(unprocessed)>>

\* a call has tasks that have not returned
InProgress(tasks, w) == tasks[w].pc \notin {"none", "done"}

\* C26: no subscription has tasks of two calls in progress at once
C26_OneTickPerSubscription ==
    \A w \in Webhooks : ~(InProgress(task, w) /\ InProgress(parked.task, w))

====
